---- MODULE Spec2Model ----
(***************************************************************************)
(* Model of the benchmark report pipeline of scripts/parse_bench.py (and   *)
(* its earlier iteration scripts/parse-bench.py): the two line parsers,    *)
(* the per-benchmark table/chart rendering and main.                       *)
(*                                                                         *)
(* Text is modelled at character level.  A line is a sequence of           *)
(* characters, a character is a one-element string; the non-ASCII glyphs   *)
(* of the harness output are written "TEE" (U+251C), "ELL" (U+2570),       *)
(* "DASH" (U+2500), "BAR" (U+2502) and "MU" (U+00B5), "TAB" is the tab.    *)
(* A Python dict is an association list (sequence of [k, v] records) in    *)
(* insertion order, which is the order Python iterates it in.              *)
(* A parsed duration is held exactly, as an integer number of              *)
(* thousandths of the reported unit (float rounding is not modelled).      *)
(***************************************************************************)
EXTENDS Integers, Sequences, FiniteSets, TLC

VARIABLES
    pc,                 \* position of the running function
    text,               \* parse_divan_output: the lines of its argument
    i,                  \* parse_divan_output: index of the next line
    results,            \* parse_divan_output: results
    current_benchmark,  \* parse_divan_output: current_benchmark
    gtext,              \* parse_gungraun_output: the lines of its argument
    gi,                 \* parse_gungraun_output: index of the next line
    gresults,           \* parse_gungraun_output: results
    current_bench,      \* parse_gungraun_output: current_bench
    bench_name,         \* generate_benchmark_section: bench_name
    operation,          \* generate_benchmark_section: operation
    section_data,       \* generate_benchmark_section: divan_data (one group)
    gungraun_data,      \* generate_benchmark_section and main: gungraun_data
    sorted_targets,     \* generate_benchmark_section: sorted_targets
    ti,                 \* generate_benchmark_section: index in sorted_targets
    rows,               \* generate_benchmark_section: the <tr> rows written so far
    chart,              \* generate_benchmark_section: the chartData written
    argc,               \* main: len(sys.argv)
    divan_file,         \* main: the file at sys.argv[1]
    gungraun_file,      \* main: the file at sys.argv[2]
    divan_data,         \* main: divan_data
    html,               \* main: html
    output_file,        \* main: the file at output_file
    exit_code           \* main: the exit status of the process

divan_vars == <<text, i, results, current_benchmark>>

gungraun_vars == <<gtext, gi, gresults, current_bench>>

section_vars ==
    <<bench_name, operation, section_data, gungraun_data, sorted_targets, ti, rows, chart>>

main_vars == <<argc, divan_file, gungraun_file, divan_data, html, output_file, exit_code>>

vars == <<pc, divan_vars, gungraun_vars, section_vars, main_vars>>

(***************************************************************************)
(* Bounds of the model.                                                    *)
(***************************************************************************)
\* The longest input text, in lines.
MaxLines == 3

(***************************************************************************)
(* Characters and the character classes of Python's re.                    *)
(***************************************************************************)
Digit == {"0", "1", "2", "3", "4", "5", "6", "7", "8", "9"}

Letter == {"a", "b", "c", "d", "e", "f", "g", "h", "i", "j", "k", "l", "m", "n", "o",
    "p", "q", "r", "s", "t", "u", "v", "w", "x", "y", "z", "C", "E", "I", "MU"}

\* \w (and [\w_], which is the same class)
WordChar == Letter \cup Digit \cup {"_"}

\* \s
WhiteSpace == {" ", "TAB"}

\* Python's None; also what `if x:` treats like None for a str, the empty string.
None == <<>>

\* Number of consecutive characters of class C in s from position p on: the
\* greedy match of C* at p.
RECURSIVE RunLen(_, _, _)
RunLen(s, p, C) ==
    IF p <= Len(s) /\ s[p] \in C THEN 1 + RunLen(s, p + 1, C) ELSE 0

\* s[p:] starts with pat
StartsWithAt(s, p, pat) ==
    /\ p + Len(pat) - 1 <= Len(s)
    /\ \A k \in 1..Len(pat) : s[p + k - 1] = pat[k]

\* pat in s
Contains(s, pat) == \E p \in 1..(Len(s) + 1) : StartsWithAt(s, p, pat)

\* s[p:].replace(pat, ''), pat not empty: every non-overlapping occurrence,
\* leftmost first, is removed.
RECURSIVE RemoveAllFrom(_, _, _)
RemoveAllFrom(s, p, pat) ==
    IF p > Len(s) THEN <<>>
    ELSE IF StartsWithAt(s, p, pat) THEN RemoveAllFrom(s, p + Len(pat), pat)
    ELSE <<s[p]>> \o RemoveAllFrom(s, p + 1, pat)

\* s.replace(pat, '')
RemoveAll(s, pat) == RemoveAllFrom(s, 1, pat)

\* s.strip()
RECURSIVE Strip(_)
Strip(s) ==
    IF s = <<>> THEN s
    ELSE IF s[1] \in WhiteSpace THEN Strip(Tail(s))
    ELSE IF s[Len(s)] \in WhiteSpace THEN Strip(SubSeq(s, 1, Len(s) - 1))
    ELSE s

\* number of occurrences of character c in s
RECURSIVE Count(_, _)
Count(s, c) ==
    IF s = <<>> THEN 0 ELSE (IF s[1] = c THEN 1 ELSE 0) + Count(Tail(s), c)

DigitVal(c) ==
    CASE c = "0" -> 0 [] c = "1" -> 1 [] c = "2" -> 2 [] c = "3" -> 3 [] c = "4" -> 4
      [] c = "5" -> 5 [] c = "6" -> 6 [] c = "7" -> 7 [] c = "8" -> 8 [] c = "9" -> 9

\* value of a sequence of decimal digits (0 for the empty sequence)
RECURSIVE DigitsVal(_)
DigitsVal(s) ==
    IF s = <<>> THEN 0 ELSE 10 * DigitsVal(SubSeq(s, 1, Len(s) - 1)) + DigitVal(s[Len(s)])

(***************************************************************************)
(* Python dicts, in insertion order.                                       *)
(***************************************************************************)
EmptyDict == <<>>

DictHas(d, key) == \E n \in 1..Len(d) : d[n].k = key

\* d[key], for a key of d
DictGet(d, key) == d[CHOOSE n \in 1..Len(d) : d[n].k = key].v

\* d.get(key, default)
DictGetOr(d, key, default) == IF DictHas(d, key) THEN DictGet(d, key) ELSE default

\* d[key] = val: an existing key keeps its position, a new key goes last
DictSet(d, key, val) ==
    IF DictHas(d, key)
    THEN [n \in 1..Len(d) |-> IF d[n].k = key THEN [k |-> key, v |-> val] ELSE d[n]]
    ELSE Append(d, [k |-> key, v |-> val])

\* list(d.keys())
DictKeys(d) == [n \in 1..Len(d) |-> d[n].k]

\* list(d.values())
DictValues(d) == [n \in 1..Len(d) |-> d[n].v]

(***************************************************************************)
(* The locals of a function that is not running.                           *)
(***************************************************************************)
DivanIdle == text = <<>> /\ i = 1 /\ results = EmptyDict /\ current_benchmark = None

GungraunIdle == gtext = <<>> /\ gi = 1 /\ gresults = EmptyDict /\ current_bench = None

SectionIdle ==
    /\ bench_name = None /\ operation = "none" /\ section_data = EmptyDict
    /\ gungraun_data = EmptyDict /\ sorted_targets = <<>> /\ ti = 1
    /\ rows = <<>> /\ chart = <<>>

MainIdle ==
    /\ argc = 0 /\ divan_file = <<>> /\ gungraun_file = <<>> /\ divan_data = EmptyDict
    /\ html = <<>> /\ output_file = <<>> /\ exit_code = -1

(***************************************************************************)
(* Words the source spells out.                                            *)
(***************************************************************************)
w_deserialize == <<"d", "e", "s", "e", "r", "i", "a", "l", "i", "z", "e">>

w_u_deserialize == <<"_", "d", "e", "s", "e", "r", "i", "a", "l", "i", "z", "e">>

w_u_serialize == <<"_", "s", "e", "r", "i", "a", "l", "i", "z", "e">>

\* '_deser' and '_ser', the endings of bench_id
w_u_deser == <<"_", "d", "e", "s", "e", "r">>

w_u_ser == <<"_", "s", "e", "r">>

w_serde_json == <<"s", "e", "r", "d", "e", "_", "j", "s", "o", "n">>

w_facet_format_jit == <<"f", "a", "c", "e", "t", "_", "f", "o", "r", "m", "a", "t", "_",
    "j", "i", "t">>

w_facet_json == <<"f", "a", "c", "e", "t", "_", "j", "s", "o", "n">>

w_Instructions == <<"I", "n", "s", "t", "r", "u", "c", "t", "i", "o", "n", "s">>

w_gungraun_root == <<"g", "u", "n", "g", "r", "a", "u", "n", "_", "j", "i", "t", ":",
    ":">>

(***************************************************************************)
(* parse_divan_output: the two regular expressions.                        *)
(***************************************************************************)
\* re.match(r'[TEE ELL]DASH (\w+)\s', line): group(1), or None.  \w+ is greedy
\* and the character after it must be whitespace, which \w never is, so the
\* longest run of word characters is the only candidate.
module_match(line) ==
    LET n == RunLen(line, 4, WordChar) IN
    IF /\ Len(line) >= 3
       /\ line[1] \in {"TEE", "ELL"}
       /\ line[2] = "DASH"
       /\ line[3] = " "
       /\ n >= 1
       /\ 4 + n <= Len(line)
       /\ line[4 + n] \in WhiteSpace
    THEN SubSeq(line, 4, 3 + n)
    ELSE None

NoResultMatch ==
    [ok |-> FALSE, target_full |-> <<>>, value |-> <<>>, unit |-> <<>>, unit_start |-> 0]

\* re.match(r'BAR?\s*[TEE ELL]DASH\s+([\w_]+)\s+([\d.]+)\s+(ns|MUs|ms)', line).
\* Each repeated class is followed by a character outside the class, so the
\* greedy runs are the only candidates; nothing is required after the unit.
\* The groups, and where group 3 starts in the line.
result_match(line) ==
    LET p0 == IF Len(line) >= 1 /\ line[1] = "BAR" THEN 2 ELSE 1
        p1 == p0 + RunLen(line, p0, WhiteSpace)
        s1 == RunLen(line, p1 + 2, WhiteSpace)
        p2 == p1 + 2 + s1
        n1 == RunLen(line, p2, WordChar)
        s2 == RunLen(line, p2 + n1, WhiteSpace)
        p3 == p2 + n1 + s2
        n2 == RunLen(line, p3, Digit \cup {"."})
        s3 == RunLen(line, p3 + n2, WhiteSpace)
        p4 == p3 + n2 + s3
    IN  IF /\ p1 + 1 <= Len(line)
           /\ line[p1] \in {"TEE", "ELL"}
           /\ line[p1 + 1] = "DASH"
           /\ s1 >= 1 /\ n1 >= 1 /\ s2 >= 1 /\ n2 >= 1 /\ s3 >= 1
           /\ p4 + 1 <= Len(line)
           /\ line[p4] \in {"n", "MU", "m"}
           /\ line[p4 + 1] = "s"
        THEN [ok |-> TRUE,
              target_full |-> SubSeq(line, p2, p2 + n1 - 1),
              value |-> SubSeq(line, p3, p3 + n2 - 1),
              unit |-> SubSeq(line, p4, p4 + 1),
              unit_start |-> p4]
        ELSE NoResultMatch

\* float(s) succeeds, for s made of digits and dots: at most one dot and at
\* least one digit.
float_ok(s) == Count(s, ".") <= 1 /\ Len(s) - Count(s, ".") >= 1

Thousandths == 10 * 10 * 10

\* float(s), in thousandths (s has at most three digits after the dot)
float_value(s) ==
    LET dot == IF Count(s, ".") = 0 THEN Len(s) + 1
               ELSE CHOOSE p \in 1..Len(s) : s[p] = "." /\ \A q \in 1..(p - 1) : s[q] # "."
        frac == SubSeq(s \o <<"0", "0", "0", "0">>, dot + 1, dot + 3)
    IN  DigitsVal(SubSeq(s, 1, dot - 1)) * Thousandths + DigitsVal(frac)

\* value *= 1000
MicroFactor == 1000

\* value *= 1_000_000
MilliFactor == 1000000

u_ns == <<"n", "s">>

u_us == <<"MU", "s">>

u_ms == <<"m", "s">>

\* Convert to nanoseconds
to_ns(value, unit) ==
    IF unit = u_us THEN value * MicroFactor
    ELSE IF unit = u_ms THEN value * MilliFactor
    ELSE value

\* operation = 'deserialize' if 'deserialize' in target_full else 'serialize'
operation_of(target_full) ==
    IF Contains(target_full, w_deserialize) THEN "deserialize" ELSE "serialize"

\* target_full.replace('_deserialize', '').replace('_serialize', '')
target_base_of(target_full) ==
    RemoveAll(RemoveAll(target_full, w_u_deserialize), w_u_serialize)

\* {'deserialize': {}, 'serialize': {}}
EmptyBench == [deserialize |-> EmptyDict, serialize |-> EmptyDict]

\* results.setdefault(current_benchmark, {...}): an entry the text opened
\* before is kept as it is
open_benchmark_setdefault(res, name) ==
    IF DictHas(res, name) THEN res ELSE DictSet(res, name, EmptyBench)

\* results[current_benchmark] = {'deserialize': {}, 'serialize': {}}
open_benchmark(res, name) == DictSet(res, name, EmptyBench)

\* store_result with the measurement filed under the first benchmark of the
\* text instead of the current one
store_result_under_first(res, cur, m) ==
    LET op == operation_of(m.target_full)
        val == to_ns(float_value(m.value), m.unit)
    IN  DictSet(res, res[1].k,
                [res[1].v EXCEPT ![op] = DictSet(@, target_base_of(m.target_full), val)])

\* results[current_benchmark][operation][target_base] = value
store_result(res, cur, m) ==
    LET op == operation_of(m.target_full)
        entry == DictGet(res, cur)
        val == to_ns(float_value(m.value), m.unit)
    IN  DictSet(res, cur, [entry EXCEPT ![op] = DictSet(@, target_base_of(m.target_full), val)])

\* What one pass of the loop body does with a line: "module" (a section line),
\* "result" (a measurement is stored), "raise" (float() raises ValueError,
\* which nothing catches) or "skip".
divan_line_kind(line, cur) ==
    IF module_match(line) # None THEN "module"
    ELSE IF cur = None THEN "skip"
    ELSE IF ~result_match(line).ok THEN "skip"
    ELSE IF ~float_ok(result_match(line).value) THEN "raise"
    ELSE "result"

\* The loop body, as a function of the locals.
divan_body(st, line) ==
    LET kind == divan_line_kind(line, st.current_benchmark) IN
    CASE kind = "module" ->
            [st EXCEPT !.current_benchmark = module_match(line),
                       !.results = open_benchmark(st.results, module_match(line))]
      [] kind = "result" ->
            [st EXCEPT !.results = store_result(st.results, st.current_benchmark,
                                                result_match(line))]
      [] kind = "raise" -> [st EXCEPT !.raised = TRUE]
      [] OTHER -> st

RECURSIVE divan_loop(_, _, _)
divan_loop(st, lines, n) ==
    IF n > Len(lines) \/ st.raised THEN st
    ELSE divan_loop(divan_body(st, lines[n]), lines, n + 1)

\* parse_divan_output(text), text given as text.split('\n'): the returned
\* results, and whether the call raised instead of returning.
parse_divan_output(lines) ==
    divan_loop([results |-> EmptyDict, current_benchmark |-> None, raised |-> FALSE],
               lines, 1)

(***************************************************************************)
(* Input lines of the statistical harness.                                 *)
(***************************************************************************)
w_simple_struct == <<"s", "i", "m", "p", "l", "e", "_", "s", "t", "r", "u", "c", "t">>

w_twitter == <<"t", "w", "i", "t", "t", "e", "r">>

p_top == <<"TEE", "DASH", " ">>

p_last_top == <<"ELL", "DASH", " ">>

p_nested == <<"BAR", " ", " ", "TEE", "DASH", " ">>

p_nested_last == <<"BAR", " ", " ", "ELL", "DASH", " ">>

p_indented == <<" ", " ", " ", "ELL", "DASH", " ">>

\* 'TEE-DASH simple_struct', nothing after the identifier
l_sec_bare == p_top \o w_simple_struct

\* 'TEE-DASH simple_struct ', padded as divan pads its tree column
l_sec_simple == p_top \o w_simple_struct \o <<" ">>

\* 'ELL-DASH twitter '
l_sec_twitter == p_last_top \o w_twitter \o <<" ">>

\* 'TEE-DASH floats '
l_sec_floats == p_top \o <<"f", "l", "o", "a", "t", "s", " ">>

\* 'BAR  TEE-DASH facet_format_jit_deserialize  1.046 MUs'
l_jit_de ==
    p_nested \o w_facet_format_jit \o w_u_deserialize
        \o <<" ", " ", "1", ".", "0", "4", "6", " ", "MU", "s">>

\* 'BAR  TEE-DASH serde_json_deserialize  2.500 MUs'
l_serde_de ==
    p_nested \o w_serde_json \o w_u_deserialize
        \o <<" ", " ", "2", ".", "5", "0", "0", " ", "MU", "s">>

\* 'BAR  ELL-DASH serde_json_serialize  2 ms'
l_serde_ser ==
    p_nested_last \o w_serde_json \o w_u_serialize \o <<" ", " ", "2", " ", "m", "s">>

\* 'BAR  TEE-DASH facet_json_deserialize  1.2.3 MUs': not a number
l_bad_float ==
    p_nested \o w_facet_json \o w_u_deserialize
        \o <<" ", " ", "1", ".", "2", ".", "3", " ", "MU", "s">>

\* 'BAR  TEE-DASH facet_json_deserialize  1 msec': a unit token that only starts with ms
l_msec ==
    p_nested \o w_facet_json \o w_u_deserialize \o <<" ", " ", "1", " ", "m", "s", "e", "c">>

\* 'BAR  TEE-DASH facet_json_deserialize  5 s': seconds
l_seconds ==
    p_nested \o w_facet_json \o w_u_deserialize \o <<" ", " ", "5", " ", "s">>

\* 'TEE-DASH facet_json_serialize  7.5 ns': a measurement that is not nested
l_top_result ==
    p_top \o w_facet_json \o w_u_serialize \o <<" ", " ", "7", ".", "5", " ", "n", "s">>

\* '   ELL-DASH facet_json_serialize  7.5 ns': nested under spaces
l_space_nested ==
    p_indented \o w_facet_json \o w_u_serialize \o <<" ", " ", "7", ".", "5", " ", "n", "s">>

\* 'BAR  TEE-DASH serde_json_serialize_deserialize  9 ns'
l_collide ==
    p_nested \o w_serde_json \o w_u_serialize \o w_u_deserialize
        \o <<" ", " ", "9", " ", "n", "s">>

\* the empty line
l_blank == <<>>

DivanLines == {l_sec_bare, l_sec_simple, l_sec_twitter, l_jit_de, l_serde_de, l_serde_ser,
    l_bad_float, l_msec, l_seconds, l_top_result, l_space_nested, l_collide, l_blank}

\* text.split('\n') of the texts considered: one to MaxLines lines
Texts(Lines) == UNION {[1..n -> Lines] : n \in 1..MaxLines}

(***************************************************************************)
(* parse_divan_output, one action per way through the loop body.           *)
(***************************************************************************)
not_divan_vars == <<gungraun_vars, section_vars, main_vars>>

InitDivan ==
    /\ pc = "divan_loop"
    /\ text \in Texts(DivanLines)
    /\ i = 1
    /\ results = EmptyDict
    /\ current_benchmark = None
    /\ GungraunIdle /\ SectionIdle /\ MainIdle

DivanAt(kind) ==
    /\ pc = "divan_loop"
    /\ i <= Len(text)
    /\ divan_line_kind(text[i], current_benchmark) = kind

\* module_match: the line opens a section
DivanModule ==
    /\ DivanAt("module")
    /\ current_benchmark' = module_match(text[i])
    /\ results' = open_benchmark(results, module_match(text[i]))
    /\ i' = i + 1
    /\ UNCHANGED <<pc, text, not_divan_vars>>

\* result_match: a measurement of the current benchmark
DivanResult ==
    /\ DivanAt("result")
    /\ results' = store_result(results, current_benchmark, result_match(text[i]))
    /\ i' = i + 1
    /\ UNCHANGED <<pc, text, current_benchmark, not_divan_vars>>

\* float(result_match.group(2)) raises ValueError
DivanValueError ==
    /\ DivanAt("raise")
    /\ pc' = "divan_raised"
    /\ UNCHANGED <<text, i, results, current_benchmark, not_divan_vars>>

\* no pattern matches, or a measurement before any section
DivanSkip ==
    /\ DivanAt("skip")
    /\ i' = i + 1
    /\ UNCHANGED <<pc, text, results, current_benchmark, not_divan_vars>>

\* return results
DivanReturn ==
    /\ pc = "divan_loop"
    /\ i > Len(text)
    /\ pc' = "divan_returned"
    /\ UNCHANGED <<divan_vars, not_divan_vars>>

NextDivan == DivanModule \/ DivanResult \/ DivanValueError \/ DivanSkip \/ DivanReturn

SpecDivan == InitDivan /\ [][NextDivan]_vars

(***************************************************************************)
(* Properties of parse_divan_output.                                       *)
(***************************************************************************)
\* the lines the loop has gone through
Scanned == 1..(i - 1)

IsSectionLine(line) == module_match(line) # None

\* the benchmark named by the last section line among text[1..n-1], or None
ActiveAt(n) ==
    IF \E q \in 1..(n - 1) : IsSectionLine(text[q])
    THEN module_match(text[CHOOSE q \in 1..(n - 1) :
            /\ IsSectionLine(text[q])
            /\ \A r \in (q + 1)..(n - 1) : ~IsSectionLine(text[r])])
    ELSE None

\* line n is a recognized measurement line: not a section line, matching the
\* measurement pattern with a number float() accepts, below some section
IsMeasurementAt(n) ==
    /\ ~IsSectionLine(text[n])
    /\ ActiveAt(n) # None
    /\ result_match(text[n]).ok
    /\ float_ok(result_match(text[n]).value)

\* line n otherwise matches the measurement pattern, but its number is malformed
IsMalformedLine(line) ==
    /\ ~IsSectionLine(line)
    /\ result_match(line).ok
    /\ ~float_ok(result_match(line).value)

WithoutMalformed(lines) == SelectSeq(lines, LAMBDA l : ~IsMalformedLine(l))

\* C2 (as claimed): a line that matches the measurement pattern with a
\* malformed number is treated as Unrecognized: parse_divan_output does not
\* raise, and returns what it returns for the text without that line.
C2_MalformedNumberIsLocal ==
    pc \in {"divan_returned", "divan_raised"} =>
        /\ pc = "divan_returned"
        /\ results = parse_divan_output(WithoutMalformed(text)).results

\* C2: the case happens: a malformed measurement line below a section was reached
C2_Witness ==
    /\ pc = "divan_raised"
    /\ IsMalformedLine(text[i])
    /\ current_benchmark # None

Operations == {"deserialize", "serialize"}

\* the text of the scenario: 'TEE-DASH simple_struct' and the two measurements
ScenarioText == <<l_sec_bare, l_jit_de, l_serde_de>>

\* C3 (as claimed): a section line needs nothing after the identifier: the
\* scenario text yields benchmark simple_struct whose deserialize group holds
\* exactly facet_format_jit at 1046 ns (the fastest) and serde_json at 2500 ns
\* (ratio to the fastest about 2.39).
C3_BareSectionScenario ==
    (pc = "divan_returned" /\ text = ScenarioText) =>
        /\ DictKeys(results) = <<w_simple_struct>>
        /\ LET group == DictGet(results, w_simple_struct).deserialize IN
            /\ group = << [k |-> w_facet_format_jit, v |-> 1046 * Thousandths],
                          [k |-> w_serde_json, v |-> 2500 * Thousandths] >>
            /\ \A n \in 1..Len(group) : group[n].v >= group[1].v
            /\ (100 * group[2].v) \div group[1].v = 239

\* C3: the scenario text has been parsed
C3_Witness == pc = "divan_returned" /\ text = ScenarioText

\* C5: while the lines are scanned, the active benchmark is the one named by
\* the most recent section line; every recognized measurement line is filed
\* under the benchmark that was active at that line (and is still there
\* unless a later section line of the same name reset the entry), and every
\* stored measurement comes from a line at which its benchmark was active.
C5_AttributedToLatestSection ==
    /\ current_benchmark = ActiveAt(i)
    /\ \A n \in Scanned :
        IsMeasurementAt(n) =>
            LET b == ActiveAt(n)
                m == result_match(text[n])
            IN  (\A q \in (n + 1)..(i - 1) : module_match(text[q]) # b) =>
                    /\ DictHas(results, b)
                    /\ DictHas(DictGet(results, b)[operation_of(m.target_full)],
                               target_base_of(m.target_full))
    /\ \A e \in 1..Len(results) : \A op \in Operations :
        \A r \in 1..Len(results[e].v[op]) :
            \E n \in Scanned :
                /\ IsMeasurementAt(n)
                /\ ActiveAt(n) = results[e].k
                /\ operation_of(result_match(text[n]).target_full) = op
                /\ target_base_of(result_match(text[n]).target_full) = results[e].v[op][r].k
                /\ to_ns(float_value(result_match(text[n]).value), result_match(text[n]).unit)
                       = results[e].v[op][r].v

\* C5: two sections were scanned and the measurement after the second one is
\* filed under the second only
C5_Witness ==
    /\ pc = "divan_returned"
    /\ Len(results) = 2
    /\ results[1].v = EmptyBench
    /\ results[2].v # EmptyBench

\* every character that is not whitespace
NonSpace == WordChar \cup {"TEE", "ELL", "DASH", "BAR", ".", ",", ":", "|"}

\* the whole unit token of a line matching the measurement pattern: the
\* characters from where group 3 starts up to the next whitespace
UnitToken(line) ==
    LET p == result_match(line).unit_start IN
    SubSeq(line, p, p + RunLen(line, p, NonSpace) - 1)

\* the line the loop has just gone through is a recognized measurement line
JustStored ==
    /\ pc \in {"divan_loop", "divan_returned"}
    /\ i > 1
    /\ IsMeasurementAt(i - 1)

\* the duration stored for the line just gone through
StoredForLast ==
    LET m == result_match(text[i - 1]) IN
    DictGet(DictGet(results, current_benchmark)[operation_of(m.target_full)],
            target_base_of(m.target_full))

\* C6 (as claimed): a recognized measurement line with value v and unit u is
\* stored as v for ns, v * 1000 for MUs and v * 1000000 for ms, and no other
\* unit token produces a measurement.
C6_UnitConversion ==
    JustStored =>
        LET v == float_value(result_match(text[i - 1]).value)
            u == UnitToken(text[i - 1])
        IN  /\ u \in {u_ns, u_us, u_ms}
            /\ u = u_ns => StoredForLast = v
            /\ u = u_us => StoredForLast = v * 1000
            /\ u = u_ms => StoredForLast = v * 1000000

\* C6: a measurement whose unit token is 'msec' has been stored
C6_Witness == JustStored /\ UnitToken(text[i - 1]) = <<"m", "s", "e", "c">>

\* C6, the part that holds: the stored duration is the value times the
\* multiplier of the two characters the pattern matched as the unit
C6_ConversionOfMatchedUnit ==
    JustStored =>
        LET v == float_value(result_match(text[i - 1]).value)
            u == result_match(text[i - 1]).unit
        IN  /\ u \in {u_ns, u_us, u_ms}
            /\ u = u_ns => StoredForLast = v
            /\ u = u_us => StoredForLast = v * 1000
            /\ u = u_ms => StoredForLast = v * 1000000

EndsWith(s, suffix) ==
    Len(s) >= Len(suffix) /\ StartsWithAt(s, Len(s) - Len(suffix) + 1, suffix)

\* A section line as a generator of input format A writes it: a tree-drawing
\* prefix, a benchmark identifier and at most padding.  The identifier, or None.
GenSectionName(line) ==
    LET n == RunLen(line, 4, WordChar) IN
    IF /\ Len(line) >= 4
       /\ line[1] \in {"TEE", "ELL"} /\ line[2] = "DASH" /\ line[3] = " "
       /\ n >= 1
       /\ RunLen(line, 4 + n, WhiteSpace) = Len(line) - 3 - n
    THEN SubSeq(line, 4, 3 + n)
    ELSE None

\* A measurement line as a generator writes it: nested, '<target>_<operation>',
\* a decimal number and one of the three unit tokens.
GenMeasurement(line) ==
    /\ Len(line) >= 1
    /\ line[1] \in {"BAR"} \cup WhiteSpace
    /\ result_match(line).ok
    /\ float_ok(result_match(line).value)
    /\ UnitToken(line) \in {u_ns, u_us, u_ms}
    /\ \/ EndsWith(result_match(line).target_full, w_u_deserialize)
       \/ EndsWith(result_match(line).target_full, w_u_serialize)

GenOperation(line) ==
    IF EndsWith(result_match(line).target_full, w_u_deserialize)
    THEN "deserialize" ELSE "serialize"

GenTarget(line) ==
    LET name == result_match(line).target_full
        cut == IF GenOperation(line) = "deserialize"
               THEN Len(w_u_deserialize) ELSE Len(w_u_serialize)
    IN  SubSeq(name, 1, Len(name) - cut)

\* the measurement lines that follow section line n, up to the next section
GenBlock(t, n) ==
    {q \in (n + 1)..Len(t) : \A r \in (n + 1)..q : GenSectionName(t[r]) = None}

GenSections(t) == {n \in 1..Len(t) : GenSectionName(t[n]) # None}

\* t is a generated text of distinct sections, each followed by M measurement
\* lines for M distinct targets of operation op
IsGenerated(t, M, op) ==
    /\ 1 \in GenSections(t)
    /\ \A n \in 1..Len(t) : n \in GenSections(t) \/ GenMeasurement(t[n])
    /\ \A n, q \in GenSections(t) : n # q => GenSectionName(t[n]) # GenSectionName(t[q])
    /\ \A n \in 1..Len(t) : n \notin GenSections(t) => GenOperation(t[n]) = op
    /\ \A n \in GenSections(t) :
        /\ Cardinality(GenBlock(t, n)) = M
        /\ \A q, r \in GenBlock(t, n) : q # r => GenTarget(t[q]) # GenTarget(t[r])

OtherOperation(op) == IF op = "deserialize" THEN "serialize" ELSE "deserialize"

\* C7 (as claimed): parsing a generated text of N distinct sections, each
\* followed by M measurement lines for M distinct targets of one operation,
\* yields exactly N benchmark entries, each with exactly M rows for that
\* operation and none for the other.
C7_RoundTrip ==
    \A M \in 1..MaxLines : \A op \in Operations :
        (pc \in {"divan_returned", "divan_raised"} /\ IsGenerated(text, M, op)) =>
            /\ pc = "divan_returned"
            /\ Len(results) = Cardinality(GenSections(text))
            /\ \A e \in 1..Len(results) :
                /\ Len(results[e].v[op]) = M
                /\ Len(results[e].v[OtherOperation(op)]) = 0

\* C7: a generated text with one section of two measurements has been parsed
C7_Witness ==
    /\ pc = "divan_returned"
    /\ \E op \in Operations : IsGenerated(text, 2, op)

\* C7 restricted to generated texts whose section lines are padded (what
\* module_match needs) and whose targets stay distinct once every
\* '_deserialize' and '_serialize' is removed from the measurement names
C7_RoundTripOfPaddedSections ==
    \A M \in 1..MaxLines : \A op \in Operations :
        ( /\ pc \in {"divan_returned", "divan_raised"}
          /\ IsGenerated(text, M, op)
          /\ \A n \in GenSections(text) :
                /\ IsSectionLine(text[n])
                /\ \A q, r \in GenBlock(text, n) :
                    q # r => target_base_of(result_match(text[q]).target_full)
                               # target_base_of(result_match(text[r]).target_full) ) =>
            /\ pc = "divan_returned"
            /\ Len(results) = Cardinality(GenSections(text))
            /\ \A e \in 1..Len(results) :
                /\ Len(results[e].v[op]) = M
                /\ Len(results[e].v[OtherOperation(op)]) = 0

(***************************************************************************)
(* parse_gungraun_output: the two regular expressions.                     *)
(***************************************************************************)
\* name_match with the last segment of the path captured, however many
\* segments it has
name_match_last_segment(line) ==
    LET n == RunLen(line, 1, WordChar \cup {":"})
        k == CHOOSE q \in 0..n : /\ \A r \in (q + 1)..n : line[r] # ":"
                                 /\ (q = 0 \/ line[q] = ":")
    IN  IF StartsWithAt(line, 1, w_gungraun_root) /\ k < n /\ k > Len(w_gungraun_root)
        THEN SubSeq(line, k + 1, n)
        ELSE None

\* re.match(r'gungraun_jit::[\w_]+::([\w_]+)', line): group(1), or None.  The
\* pattern is anchored at the start only: the first segment is the literal
\* gungraun_jit and the group is the third segment, whatever follows it.
name_match(line) ==
    LET a == Len(w_gungraun_root) + 1
        n1 == RunLen(line, a, WordChar)
        b == a + n1 + 2
        n2 == RunLen(line, b, WordChar)
    IN  IF /\ StartsWithAt(line, 1, w_gungraun_root)
           /\ n1 >= 1
           /\ StartsWithAt(line, a + n1, <<":", ":">>)
           /\ n2 >= 1
        THEN SubSeq(line, b, b + n2 - 1)
        ELSE None

NoMetricMatch == [ok |-> FALSE, label |-> <<>>, value |-> <<>>]

\* re.match(r'\s+([\w\s]+):\s+([\d,]+)', line).  \s+ and [\w\s]+ share the
\* leading whitespace: the line must start with whitespace, the run of word
\* and whitespace characters from the start must be at least two long and
\* end right before the colon; group 1 is that run less the whitespace \s+
\* keeps (all the leading whitespace, or all but one character of the run
\* when the run is whitespace only).  Group 2 ends before any '|'.
metric_match(line) ==
    LET r == RunLen(line, 1, WordChar \cup WhiteSpace)
        lead == RunLen(line, 1, WhiteSpace)
        g == IF lead = r THEN r ELSE lead + 1
        s == RunLen(line, r + 2, WhiteSpace)
        n == RunLen(line, r + 2 + s, Digit \cup {","})
    IN  IF /\ lead >= 1 /\ r >= 2
           /\ r + 1 <= Len(line) /\ line[r + 1] = ":"
           /\ s >= 1 /\ n >= 1
        THEN [ok |-> TRUE,
              label |-> SubSeq(line, g, r),
              value |-> SubSeq(line, r + 2 + s, r + 1 + s + n)]
        ELSE NoMetricMatch

\* the separators left in place
strip_separators_kept(value) == value

\* metric_match.group(2).replace(',', '')
strip_separators(value) == RemoveAll(value, <<",">>)

\* value_str.split('|')[0] if '|' in value_str
current_component(value_str) ==
    IF Contains(value_str, <<"|">>)
    THEN SubSeq(value_str, 1, (CHOOSE p \in 1..Len(value_str) :
            value_str[p] = "|" /\ \A q \in 1..(p - 1) : value_str[q] # "|") - 1)
    ELSE value_str

\* int(value_str) succeeds, for value_str without whitespace, sign or underscore
int_ok(value_str) == value_str # <<>> /\ \A p \in 1..Len(value_str) : value_str[p] \in Digit

\* the value_str the metric line yields
metric_value_str(m) == current_component(strip_separators(m.value))

\* results.setdefault(current_bench, {}): an entry that is there is kept
open_bench_setdefault(res, name) ==
    IF DictHas(res, name) THEN res ELSE DictSet(res, name, EmptyDict)

\* results[current_bench] = {}
open_bench(res, name) == DictSet(res, name, EmptyDict)

\* results[current_bench][metric] = value
store_metric(res, cur, m) ==
    DictSet(res, cur, DictSet(DictGet(res, cur), Strip(m.label),
                              DigitsVal(metric_value_str(m))))

\* What one pass of the loop body does with a line: "name" (a section line),
\* "metric" (a metric is stored), "valueerror" (int() raises ValueError, which
\* is caught and the line dropped) or "skip".
gungraun_line_kind(line, cur) ==
    IF name_match(line) # None THEN "name"
    ELSE IF cur = None THEN "skip"
    ELSE IF ~metric_match(line).ok THEN "skip"
    ELSE IF ~int_ok(metric_value_str(metric_match(line))) THEN "valueerror"
    ELSE "metric"

\* The loop body, as a function of the locals.
gungraun_body(st, line) ==
    LET kind == gungraun_line_kind(line, st.current_bench) IN
    CASE kind = "name" ->
            [st EXCEPT !.current_bench = name_match(line),
                       !.results = open_bench(st.results, name_match(line))]
      [] kind = "metric" ->
            [st EXCEPT !.results = store_metric(st.results, st.current_bench,
                                                metric_match(line))]
      [] OTHER -> st

RECURSIVE gungraun_loop(_, _, _)
gungraun_loop(st, lines, n) ==
    IF n > Len(lines) THEN st
    ELSE gungraun_loop(gungraun_body(st, lines[n]), lines, n + 1)

\* parse_gungraun_output(text), text given as text.split('\n')
parse_gungraun_output(lines) ==
    gungraun_loop([results |-> EmptyDict, current_bench |-> None], lines, 1).results

(***************************************************************************)
(* Input lines of the instruction harness.                                 *)
(***************************************************************************)
w_jit_benchmarks == <<"j", "i", "t", "_", "b", "e", "n", "c", "h", "m", "a", "r", "k",
    "s">>

w_Estimated_Cycles == <<"E", "s", "t", "i", "m", "a", "t", "e", "d", " ", "C", "y", "c",
    "l", "e", "s">>

\* 'gungraun_jit::jit_benchmarks::simple_struct_facet_format_jit'
g_name_jit ==
    w_gungraun_root \o w_jit_benchmarks \o <<":", ":">>
        \o w_simple_struct \o <<"_">> \o w_facet_format_jit

\* 'gungraun_jit::jit_benchmarks::simple_struct_serde_json'
g_name_serde ==
    w_gungraun_root \o w_jit_benchmarks \o <<":", ":">>
        \o w_simple_struct \o <<"_">> \o w_serde_json

\* 'gungraun_jit::a::b::c': four segments
g_name_four == w_gungraun_root \o <<"a", ":", ":", "b", ":", ":", "c">>

\* 'gungraun_jit::twitter': two segments
g_name_two == w_gungraun_root \o w_twitter

\* 'jit_benchmarks::a::twitter': three segments under another root
g_name_other_root == w_jit_benchmarks \o <<":", ":", "a", ":", ":">> \o w_twitter

\* '  Instructions: 6,549|0'
g_instructions ==
    <<" ", " ">> \o w_Instructions \o <<":", " ", "6", ",", "5", "4", "9", "|", "0">>

\* '  Instructions: 0|0'
g_instructions_zero == <<" ", " ">> \o w_Instructions \o <<":", " ", "0", "|", "0">>

\* 'Instructions: 6,549|0', not indented
g_instructions_bare == w_Instructions \o <<":", " ", "6", ",", "5", "4", "9", "|", "0">>

\* '  Estimated Cycles:  9,165'
g_cycles ==
    <<" ", " ">> \o w_Estimated_Cycles \o <<":", " ", " ", "9", ",", "1", "6", "5">>

\* '  Instructions: ,': no digit
g_no_digit == <<" ", " ">> \o w_Instructions \o <<":", " ", ",">>

GungraunLines == {g_name_jit, g_name_serde, g_name_four, g_name_two, g_name_other_root,
    g_instructions, g_instructions_zero, g_instructions_bare, g_cycles, g_no_digit, l_blank}

(***************************************************************************)
(* parse_gungraun_output, one action per way through the loop body.        *)
(***************************************************************************)
not_gungraun_vars == <<divan_vars, section_vars, main_vars>>

InitGungraun ==
    /\ pc = "gungraun_loop"
    /\ gtext \in Texts(GungraunLines)
    /\ gi = 1
    /\ gresults = EmptyDict
    /\ current_bench = None
    /\ DivanIdle /\ SectionIdle /\ MainIdle

GungraunAt(kind) ==
    /\ pc = "gungraun_loop"
    /\ gi <= Len(gtext)
    /\ gungraun_line_kind(gtext[gi], current_bench) = kind

\* name_match: the line opens a section
GungraunName ==
    /\ GungraunAt("name")
    /\ current_bench' = name_match(gtext[gi])
    /\ gresults' = open_bench(gresults, name_match(gtext[gi]))
    /\ gi' = gi + 1
    /\ UNCHANGED <<pc, gtext, not_gungraun_vars>>

\* metric_match: a metric of the current section
GungraunMetric ==
    /\ GungraunAt("metric")
    /\ gresults' = store_metric(gresults, current_bench, metric_match(gtext[gi]))
    /\ gi' = gi + 1
    /\ UNCHANGED <<pc, gtext, current_bench, not_gungraun_vars>>

\* except ValueError: continue
GungraunValueError ==
    /\ GungraunAt("valueerror")
    /\ gi' = gi + 1
    /\ UNCHANGED <<pc, gtext, gresults, current_bench, not_gungraun_vars>>

\* no pattern matches, or a metric before any section
GungraunSkip ==
    /\ GungraunAt("skip")
    /\ gi' = gi + 1
    /\ UNCHANGED <<pc, gtext, gresults, current_bench, not_gungraun_vars>>

\* return results
GungraunReturn ==
    /\ pc = "gungraun_loop"
    /\ gi > Len(gtext)
    /\ pc' = "gungraun_returned"
    /\ UNCHANGED <<gungraun_vars, not_gungraun_vars>>

NextGungraun ==
    GungraunName \/ GungraunMetric \/ GungraunValueError \/ GungraunSkip \/ GungraunReturn

SpecGungraun == InitGungraun /\ [][NextGungraun]_vars

(***************************************************************************)
(* Properties of parse_gungraun_output.                                    *)
(***************************************************************************)
\* the loop has just gone through line gi - 1
JustScannedG == pc \in {"gungraun_loop", "gungraun_returned"} /\ gi > 1

IsIntegerLiteral(s) ==
    /\ s # <<>>
    /\ s[1] \in Digit
    /\ \A p \in 1..Len(s) : s[p] \in Digit \cup {","}

\* The line read as '<label>: <integer>[|<integer>]', integers with optional
\* thousands separators: whether it has that form, how far it is indented,
\* the label, and the integer left of the '|' with the separators dropped.
MetricForm(line) ==
    LET r == RunLen(line, 1, WordChar \cup WhiteSpace)
        s == RunLen(line, r + 2, WhiteSpace)
        tok == SubSeq(line, r + 2 + s, Len(line))
        cur == SubSeq(tok, 1, RunLen(tok, 1, Digit \cup {","}))
        rest == SubSeq(tok, Len(cur) + 1, Len(tok))
    IN  [ok |-> /\ r + 1 <= Len(line) /\ line[r + 1] = ":"
                /\ Strip(SubSeq(line, 1, r)) # <<>>
                /\ s >= 1
                /\ IsIntegerLiteral(cur)
                /\ \/ rest = <<>>
                   \/ rest[1] = "|" /\ IsIntegerLiteral(Tail(rest)),
         indent |-> RunLen(line, 1, WhiteSpace),
         label |-> Strip(SubSeq(line, 1, r)),
         current |-> DigitsVal(SelectSeq(cur, LAMBDA c : c \in Digit))]

\* the label of the line just gone through is stored, with the value of the
\* integer left of the '|', under the active key
LastMetricStored ==
    LET f == MetricForm(gtext[gi - 1]) IN
    /\ DictHas(gresults, current_bench)
    /\ DictHas(DictGet(gresults, current_bench), f.label)
    /\ DictGet(DictGet(gresults, current_bench), f.label) = f.current

\* C8 (as claimed): every line of the form '<label>: <integer>[|<integer>]'
\* that follows a section line stores the label with the integer left of the
\* '|', separators stripped, under the active key.
C8_MetricLineStored ==
    (JustScannedG /\ current_bench # None /\ MetricForm(gtext[gi - 1]).ok) =>
        LastMetricStored

\* C8 (amended): the same for every such line that starts with at least one
\* whitespace character.
C8_IndentedMetricLineStored ==
    ( /\ JustScannedG /\ current_bench # None
      /\ MetricForm(gtext[gi - 1]).ok
      /\ MetricForm(gtext[gi - 1]).indent >= 1 ) =>
        LastMetricStored

\* C8: '  Instructions: 6,549|0' below a section has been stored as 6549
C8_Witness ==
    /\ JustScannedG
    /\ gtext[gi - 1] = g_instructions
    /\ current_bench # None
    /\ DictGet(DictGet(gresults, current_bench), w_Instructions) = 6549

\* the '::'-separated segments of s
RECURSIVE SplitPath(_)
SplitPath(s) ==
    LET n == RunLen(s, 1, WordChar) IN
    IF n < Len(s) /\ StartsWithAt(s, n + 1, <<":", ":">>)
    THEN <<SubSeq(s, 1, n)>> \o SplitPath(SubSeq(s, n + 3, Len(s)))
    ELSE <<s>>

\* the line is a namespaced path of two or more non-empty segments
IsNamespacedPath(line) ==
    LET segs == SplitPath(line) IN
    /\ Len(segs) >= 2
    /\ \A k \in 1..Len(segs) :
        segs[k] # <<>> /\ \A p \in 1..Len(segs[k]) : segs[k][p] \in WordChar

w_gungraun_jit == SubSeq(w_gungraun_root, 1, Len(w_gungraun_root) - 2)

\* a namespaced path of three or more segments whose first is gungraun_jit
IsRootedPath(line) ==
    /\ IsNamespacedPath(line)
    /\ Len(SplitPath(line)) >= 3
    /\ SplitPath(line)[1] = w_gungraun_jit

\* the third segment of the last rooted path among gtext[1..n-1], or None
KeyAt(n) ==
    IF \E q \in 1..(n - 1) : IsRootedPath(gtext[q])
    THEN SplitPath(gtext[CHOOSE q \in 1..(n - 1) :
            /\ IsRootedPath(gtext[q])
            /\ \A r \in (q + 1)..(n - 1) : ~IsRootedPath(gtext[r])])[3]
    ELSE None

\* C9 (as claimed): after a section line that is a namespaced path of two or
\* more segments the active key is the final segment of the path.
C9_FinalSegmentIsKey ==
    (JustScannedG /\ IsNamespacedPath(gtext[gi - 1])) =>
        current_bench = SplitPath(gtext[gi - 1])[Len(SplitPath(gtext[gi - 1]))]

\* C9 (amended): the active key is the third segment of the most recent path
\* of three or more segments whose first segment is gungraun_jit: the final
\* segment when the path has exactly three; a path of two segments, or under
\* another first segment, is no section line and leaves the key as it was.
C9_ThirdSegmentIsKey ==
    /\ current_bench = KeyAt(gi)
    /\ (JustScannedG /\ IsRootedPath(gtext[gi - 1]) /\ Len(SplitPath(gtext[gi - 1])) = 3) =>
            current_bench = SplitPath(gtext[gi - 1])[3]

\* C9: a path of exactly three segments set the key to its final segment
\* after a path of four segments had set it to its third
C9_Witness ==
    /\ JustScannedG
    /\ gi > 2
    /\ gtext[gi - 2] = g_name_four
    /\ gtext[gi - 1] = g_name_serde
    /\ current_bench = w_simple_struct \o <<"_">> \o w_serde_json

(***************************************************************************)
(* Number formatting.                                                      *)
(***************************************************************************)
DigitChar(d) ==
    CASE d = 0 -> "0" [] d = 1 -> "1" [] d = 2 -> "2" [] d = 3 -> "3" [] d = 4 -> "4"
      [] d = 5 -> "5" [] d = 6 -> "6" [] d = 7 -> "7" [] d = 8 -> "8" [] d = 9 -> "9"

\* str(n), n >= 0
RECURSIVE Digits(_)
Digits(n) == IF n < 10 THEN <<DigitChar(n)>> ELSE Digits(n \div 10) \o <<DigitChar(n % 10)>>

\* f"{n:,}", n >= 0
RECURSIVE format_commas(_)
format_commas(n) ==
    IF n < 1000 THEN Digits(n)
    ELSE format_commas(n \div 1000) \o <<",">>
            \o <<DigitChar((n \div 100) % 10), DigitChar((n \div 10) % 10), DigitChar(n % 10)>>

\* a / b rounded to the nearest integer, halves to even (b > 0, a >= 0)
RoundDiv(a, b) ==
    LET q == a \div b
        r == a % b
    IN  IF 2 * r > b \/ (2 * r = b /\ q % 2 = 1) THEN q + 1 ELSE q

\* one step of long division: the digit (n * r) \div b and the remainder
\* (n * r) % b for 0 <= r < b, by n additions modulo b
RECURSIVE DivStep(_, _, _, _)
DivStep(acc, r, b, n) ==
    IF n = 0 THEN acc
    ELSE IF acc.rem >= b - r
    THEN DivStep([digit |-> acc.digit + 1, rem |-> acc.rem - (b - r)], r, b, n - 1)
    ELSE DivStep([digit |-> acc.digit, rem |-> acc.rem + r], r, b, n - 1)

\* the quotient a / b to d decimals, not yet rounded: its digits as an integer,
\* and the remainder left
RECURSIVE LongDiv(_, _, _)
LongDiv(a, b, d) ==
    IF d = 0 THEN [digit |-> a \div b, rem |-> a % b]
    ELSE LET prev == LongDiv(a, b, d - 1)
             step == DivStep([digit |-> 0, rem |-> 0], prev.rem, b, 10)
         IN  [digit |-> 10 * prev.digit + step.digit, rem |-> step.rem]

\* a / b in units of 10^-d, rounded to the nearest, halves to even; the same
\* number as RoundDiv(a * 10^d, b), computed without the product
RoundRatio(a, b, d) ==
    LET ld == LongDiv(a, b, d) IN
    IF ld.rem > b - ld.rem \/ (ld.rem = b - ld.rem /\ ld.digit % 2 = 1)
    THEN ld.digit + 1
    ELSE ld.digit

\* 10 ^ d
RECURSIVE Pow10(_)
Pow10(d) == IF d = 0 THEN 1 ELSE 10 * Pow10(d - 1)

\* the d-digit decimal fraction of scaled / 10^d, zero-padded
RECURSIVE Padded(_, _)
Padded(n, d) == IF d = 0 THEN <<>> ELSE Padded(n \div 10, d - 1) \o <<DigitChar(n % 10)>>

\* f"{x:.<d>f}" for x = scaled / 10^d
format_fixed(scaled, d) ==
    Digits(scaled \div Pow10(d)) \o <<".">> \o Padded(scaled % Pow10(d), d)

\* format_time(ns), ns in thousandths: one decimal of ns below 1000 ns, two
\* decimals of MUs below 1000000 ns, two decimals of ms from there on
format_time(ns) ==
    IF ns < 1000 * Thousandths
    THEN format_fixed(RoundDiv(ns, Thousandths \div 10), 1) \o <<" ", "n", "s">>
    ELSE IF ns < 1000000 * Thousandths
    THEN format_fixed(RoundDiv(ns, 10 * Thousandths), 2) \o <<" ", "MU", "s">>
    ELSE format_fixed(RoundDiv(ns, 10000 * Thousandths), 2) \o <<" ", "m", "s">>

(***************************************************************************)
(* generate_benchmark_section.                                             *)
(***************************************************************************)
w_facet_format_json == <<"f", "a", "c", "e", "t", "_", "f", "o", "r", "m", "a", "t", "_",
    "j", "s", "o", "n">>

w_facet_json_cranelift == <<"f", "a", "c", "e", "t", "_", "j", "s", "o", "n", "_", "c",
    "r", "a", "n", "e", "l", "i", "f", "t">>

w_simd_json == <<"s", "i", "m", "d", "_", "j", "s", "o", "n">>

\* TARGETS without its entry for facet_json
TARGETS_without_facet_json ==
    (w_facet_format_jit :> [emoji |-> "zap", label |-> "Format JIT", color |-> "#FFD700"])
    @@ (w_facet_format_json :>
            [emoji |-> "package", label |-> "Format Interp", color |-> "#FF6B6B"])
    @@ (w_facet_json_cranelift :>
            [emoji |-> "rocket", label |-> "JSON JIT", color |-> "#95E1D3"])
    @@ (w_serde_json :> [emoji |-> "dart", label |-> "serde_json", color |-> "#9B59B6"])

\* TARGETS
TARGETS ==
    (w_facet_format_jit :> [emoji |-> "zap", label |-> "Format JIT", color |-> "#FFD700"])
    @@ (w_facet_format_json :>
            [emoji |-> "package", label |-> "Format Interp", color |-> "#FF6B6B"])
    @@ (w_facet_json :> [emoji |-> "wrench", label |-> "JSON Interp", color |-> "#4ECDC4"])
    @@ (w_facet_json_cranelift :>
            [emoji |-> "rocket", label |-> "JSON JIT", color |-> "#95E1D3"])
    @@ (w_serde_json :> [emoji |-> "dart", label |-> "serde_json", color |-> "#9B59B6"])

\* item goes before the elements of equal value: a sort that is not stable
RECURSIVE InsertBeforeEqual(_, _)
InsertBeforeEqual(sorted, item) ==
    IF sorted = <<>> THEN <<item>>
    ELSE IF sorted[1].v < item.v THEN <<sorted[1]>> \o InsertBeforeEqual(Tail(sorted), item)
    ELSE <<item>> \o sorted

\* item goes after every element whose value is not greater: sorted() is stable
RECURSIVE InsertByValue(_, _)
InsertByValue(sorted, item) ==
    IF sorted = <<>> THEN <<item>>
    ELSE IF sorted[1].v <= item.v THEN <<sorted[1]>> \o InsertByValue(Tail(sorted), item)
    ELSE <<item>> \o sorted

\* sorted(d.items(), key=lambda x: x[1])
RECURSIVE sorted_by_value(_)
sorted_by_value(d) ==
    IF d = <<>> THEN <<>>
    ELSE InsertByValue(sorted_by_value(SubSeq(d, 1, Len(d) - 1)), d[Len(d)])

\* min(divan_data.values()) if divan_data.values() else 0
fastest_time_of(data) ==
    IF data = <<>> THEN 0
    ELSE data[CHOOSE n \in 1..Len(data) : \A q \in 1..Len(data) : data[n].v <= data[q].v].v

\* f"{bench_name}_{target}"
gungraun_key_of(name, target) == name \o <<"_">> \o target

\* gungraun_data.get(gungraun_key, {}).get('Instructions'): <<value>>, or None
instructions_of(gdata, name, target) ==
    LET entry == DictGetOr(gdata, gungraun_key_of(name, target), EmptyDict) IN
    IF DictHas(entry, w_Instructions) THEN <<DictGet(entry, w_Instructions)>> ELSE None

\* f"{instructions:,}" if instructions else "-"
instructions_str_of(instructions) ==
    IF instructions # None /\ instructions[1] # 0
    THEN format_commas(instructions[1])
    ELSE <<"-">>

\* serde_time = divan_data.get('serde_json'): <<value>>, or None
serde_time_of(data) ==
    IF DictHas(data, w_serde_json) THEN <<DictGet(data, w_serde_json)>> ELSE None

\* serde_time and serde_time > 0
serde_usable(serde_time) == serde_time # None /\ serde_time[1] > 0

\* f"{vs_serde:.2f}x" whatever vs_serde is: '0.00x' where the ratio is absent
vs_serde_str_unguarded(time_ns, serde_time) ==
    IF serde_usable(serde_time)
    THEN format_fixed(RoundRatio(time_ns, serde_time[1], 2), 2) \o <<"x">>
    ELSE <<"0", ".", "0", "0", "x">>

\* f"{vs_serde:.2f}x" if vs_serde > 0 else "-", where
\* vs_serde = time_ns / serde_time if serde_time and serde_time > 0 else 0
vs_serde_str_of(time_ns, serde_time) ==
    IF serde_usable(serde_time) /\ time_ns > 0
    THEN format_fixed(RoundRatio(time_ns, serde_time[1], 2), 2) \o <<"x">>
    ELSE <<"-">>

\* "speedup" if vs_serde <= 1.0 else ("neutral" if vs_serde <= 2.0 else "slowdown")
vs_serde_class_of(time_ns, serde_time) ==
    IF ~serde_usable(serde_time) \/ time_ns <= serde_time[1] THEN "speedup"
    ELSE IF time_ns <= 2 * serde_time[1] THEN "neutral"
    ELSE "slowdown"

\* Determine row class
row_class_of(target, time_ns, fastest_time) ==
    IF time_ns = fastest_time THEN "fastest"
    ELSE IF target = w_serde_json THEN "baseline"
    ELSE IF target = w_facet_format_jit THEN "jit-highlight"
    ELSE ""

\* the <tr> written for a target of TARGETS
table_row(name, target, time_ns, data, gdata) ==
    [row_class |-> row_class_of(target, time_ns, fastest_time_of(data)),
     target |-> target,
     emoji |-> TARGETS[target].emoji,
     label |-> TARGETS[target].label,
     time |-> format_time(time_ns),
     instructions_str |-> instructions_str_of(instructions_of(gdata, name, target)),
     vs_serde_class |-> vs_serde_class_of(time_ns, serde_time_of(data)),
     vs_serde_str |-> vs_serde_str_of(time_ns, serde_time_of(data))]

\* the (target, time_ns) pairs the loops do not skip: target in TARGETS
known_targets(sorted) == SelectSeq(sorted, LAMBDA e : e.k \in DOMAIN TARGETS)

\* the four loops that write chartData
chart_of(sorted) ==
    LET known == known_targets(sorted) IN
    [labels |-> [n \in 1..Len(known) |->
                    <<TARGETS[known[n].k].emoji, TARGETS[known[n].k].label>>],
     data |-> [n \in 1..Len(known) |-> format_fixed(RoundDiv(known[n].v, Thousandths), 3)],
     backgroundColor |-> [n \in 1..Len(known) |-> <<TARGETS[known[n].k].color, "CC">>],
     borderColor |-> [n \in 1..Len(known) |-> TARGETS[known[n].k].color]]

\* all the <tr> of the table
table_rows(name, data, gdata) ==
    LET known == known_targets(sorted_by_value(data)) IN
    [n \in 1..Len(known) |-> table_row(name, known[n].k, known[n].v, data, gdata)]

\* generate_benchmark_section looking the instruction counts up for the
\* deserialize table only, the serialize table shown without them
generate_benchmark_section_deserialize_instructions(name, op, data, gdata, bench_id) ==
    IF data = EmptyDict THEN <<>>
    ELSE << [kind |-> "benchmark-item",
             bench_id |-> bench_id,
             bench_name |-> name,
             operation |-> op,
             rows |-> table_rows(name, data,
                                 IF op = "deserialize" THEN gdata ELSE EmptyDict),
             chart |-> chart_of(sorted_by_value(data))] >>

\* generate_benchmark_section(bench_name, operation, divan_data, gungraun_data,
\* bench_id): the html as a sequence of elements, "" being the empty sequence
generate_benchmark_section(name, op, data, gdata, bench_id) ==
    IF data = EmptyDict THEN <<>>
    ELSE << [kind |-> "benchmark-item",
             bench_id |-> bench_id,
             bench_name |-> name,
             operation |-> op,
             rows |-> table_rows(name, data, gdata),
             chart |-> chart_of(sorted_by_value(data))] >>

(***************************************************************************)
(* The inputs of generate_benchmark_section.                               *)
(***************************************************************************)
MaxTargets == 3

\* a target no entry of TARGETS names
w_unknown_target == w_simd_json

\* the targets a group is drawn from
SectionTargets == {w_facet_format_jit, w_serde_json, w_facet_json, w_unknown_target}

\* durations in thousandths of ns: 0 ns, 1046.0 ns, 2500.0 ns
SectionTimes == {0, 1046 * Thousandths, 2500 * Thousandths}

\* the groups of at most MaxTargets distinct targets, in every order of insertion
SectionDicts ==
    UNION { { d \in [1..n -> [k : SectionTargets, v : SectionTimes]] :
                \A a, b \in 1..n : a # b => d[a].k # d[b].k } : n \in 0..MaxTargets }

\* 'simple_struct_facet_format_jit'
key_jit == gungraun_key_of(w_simple_struct, w_facet_format_jit)

\* 'simple_struct_serde_json'
key_serde == gungraun_key_of(w_simple_struct, w_serde_json)

\* 'simple_struct_facet_format_jIt': the key of key_jit but for the case of a letter
key_jit_other_case ==
    [n \in 1..Len(key_jit) |-> IF n = Len(key_jit) - 1 THEN "I" ELSE key_jit[n]]

\* the instruction datasets a section is rendered against
GungraunDicts ==
    { EmptyDict,
      <<[k |-> key_jit, v |-> <<[k |-> w_Instructions, v |-> 6549]>>]>>,
      <<[k |-> key_jit, v |-> <<[k |-> w_Instructions, v |-> 0]>>]>>,
      <<[k |-> key_jit, v |-> <<[k |-> w_Estimated_Cycles, v |-> 9]>>]>>,
      <<[k |-> key_serde, v |-> <<[k |-> w_Instructions, v |-> 1234567]>>],
        [k |-> key_jit, v |-> <<[k |-> w_Instructions, v |-> 6549]>>]>>,
      <<[k |-> key_jit_other_case, v |-> <<[k |-> w_Instructions, v |-> 6549]>>]>> }

(***************************************************************************)
(* generate_benchmark_section, a step per iteration of the row loop.       *)
(***************************************************************************)
not_section_vars == <<divan_vars, gungraun_vars, main_vars>>

InitSection ==
    /\ pc = "section"
    /\ bench_name = w_simple_struct
    /\ operation \in Operations
    /\ section_data \in SectionDicts
    /\ gungraun_data \in GungraunDicts
    /\ sorted_targets = <<>> /\ ti = 1 /\ rows = <<>> /\ chart = <<>>
    /\ DivanIdle /\ GungraunIdle /\ MainIdle

\* if not divan_data: return ""
SectionEmpty ==
    /\ pc = "section"
    /\ section_data = EmptyDict
    /\ pc' = "section_returned_empty"
    /\ UNCHANGED <<section_vars, not_section_vars>>

\* serde_time, fastest_time, sorted_targets and the head of the table
SectionSort ==
    /\ pc = "section"
    /\ section_data # EmptyDict
    /\ sorted_targets' = sorted_by_value(section_data)
    /\ ti' = 1
    /\ pc' = "section_rows"
    /\ UNCHANGED <<bench_name, operation, section_data, gungraun_data, rows, chart,
                   not_section_vars>>

\* if target not in TARGETS: continue
SectionSkipTarget ==
    /\ pc = "section_rows"
    /\ ti <= Len(sorted_targets)
    /\ sorted_targets[ti].k \notin DOMAIN TARGETS
    /\ ti' = ti + 1
    /\ UNCHANGED <<pc, bench_name, operation, section_data, gungraun_data, sorted_targets,
                   rows, chart, not_section_vars>>

\* one <tr> appended to html
SectionRow ==
    /\ pc = "section_rows"
    /\ ti <= Len(sorted_targets)
    /\ sorted_targets[ti].k \in DOMAIN TARGETS
    /\ rows' = Append(rows, table_row(bench_name, sorted_targets[ti].k, sorted_targets[ti].v,
                                      section_data, gungraun_data))
    /\ ti' = ti + 1
    /\ UNCHANGED <<pc, bench_name, operation, section_data, gungraun_data, sorted_targets,
                   chart, not_section_vars>>

\* the end of the table, chartData and return html
SectionChart ==
    /\ pc = "section_rows"
    /\ ti > Len(sorted_targets)
    /\ chart' = chart_of(sorted_targets)
    /\ pc' = "section_returned"
    /\ UNCHANGED <<bench_name, operation, section_data, gungraun_data, sorted_targets, ti,
                   rows, not_section_vars>>

NextSection ==
    \/ SectionEmpty
    \/ SectionSort
    \/ SectionSkipTarget
    \/ SectionRow
    \/ SectionChart

SpecSection == InitSection /\ [][NextSection]_vars

\* the step-wise function returns what generate_benchmark_section computes
SectionAgrees ==
    /\ pc = "section_returned" =>
          generate_benchmark_section(bench_name, operation, section_data, gungraun_data,
                                     None)
            = << [kind |-> "benchmark-item", bench_id |-> None, bench_name |-> bench_name,
                  operation |-> operation, rows |-> rows, chart |-> chart] >>
    /\ pc = "section_returned_empty" =>
          generate_benchmark_section(bench_name, operation, section_data, gungraun_data,
                                     None) = <<>>

(***************************************************************************)
(* Properties of the rendered rows.                                        *)
(***************************************************************************)
SectionReturned == pc = "section_returned"

\* the duration the statistical dataset holds for the target of a row
DurationOf(row) == DictGet(section_data, row.target)

\* the rows classed 'fastest'
FastestRows == {n \in 1..Len(rows) : rows[n].row_class = "fastest"}

\* the smallest duration among the rows of the group
GroupMinimum ==
    CHOOSE m \in {DurationOf(rows[n]) : n \in 1..Len(rows)} :
        \A n \in 1..Len(rows) : m <= DurationOf(rows[n])

\* the position at which the dataset first saw the target of a row
FirstSeen(row) == CHOOSE n \in 1..Len(section_data) : section_data[n].k = row.target

\* C4: a group with at least one row has exactly one row classed 'fastest'
\* (ratio to the fastest 1.0: its duration is the minimum of the group); among
\* the rows that tie for the minimum it is the first-seen one; every other row
\* has a duration at least the minimum (ratio >= 1.0).
C4_ExactlyOneFastest ==
    (SectionReturned /\ rows # <<>>) =>
        /\ Cardinality(FastestRows) = 1
        /\ \A n \in FastestRows :
              /\ DurationOf(rows[n]) = GroupMinimum
              /\ \A q \in 1..Len(rows) :
                    DurationOf(rows[q]) = GroupMinimum
                        => FirstSeen(rows[n]) <= FirstSeen(rows[q])
        /\ \A n \in 1..Len(rows) : DurationOf(rows[n]) >= GroupMinimum

\* a returned table in which two rows tie for the minimum
C4_Witness ==
    /\ SectionReturned
    /\ \E a, b \in 1..Len(rows) :
          /\ a # b
          /\ DurationOf(rows[a]) = GroupMinimum
          /\ DurationOf(rows[b]) = GroupMinimum

\* what the code keeps of C4: a row is classed 'fastest' exactly when its
\* duration is the minimum over every target of the dataset, rendered or not,
\* and the rows come in order of duration, first-seen first among equals
C4_FastestIffDatasetMinimum ==
    SectionReturned =>
        /\ \A n \in 1..Len(rows) :
              /\ rows[n].row_class = "fastest"
                    <=> \A e \in 1..Len(section_data) :
                            DurationOf(rows[n]) <= section_data[e].v
              /\ DurationOf(rows[n]) >= GroupMinimum
        /\ \A a, b \in 1..Len(rows) :
              a < b => \/ DurationOf(rows[a]) < DurationOf(rows[b])
                       \/ /\ DurationOf(rows[a]) = DurationOf(rows[b])
                          /\ FirstSeen(rows[a]) < FirstSeen(rows[b])

\* the 'Instructions' value stored under the exact key benchmark_target:
\* <<value>>, or None when the dataset has no such entry
StoredInstructions(row) ==
    IF /\ DictHas(gungraun_data, bench_name \o <<"_">> \o row.target)
       /\ DictHas(DictGet(gungraun_data, bench_name \o <<"_">> \o row.target),
                  w_Instructions)
    THEN <<DictGet(DictGet(gungraun_data, bench_name \o <<"_">> \o row.target),
                   w_Instructions)>>
    ELSE None

\* C10: the instruction field of a rendered row is the 'Instructions' value
\* stored under the exact key benchmark + '_' + target whenever there is one,
\* 0 included, and is '-' exactly when there is none.
C10_InstructionField ==
    SectionReturned =>
        \A n \in 1..Len(rows) :
            /\ StoredInstructions(rows[n]) # None
                  => /\ rows[n].instructions_str
                            = format_commas(StoredInstructions(rows[n])[1])
                     /\ rows[n].instructions_str # <<"-">>
            /\ StoredInstructions(rows[n]) = None
                  => rows[n].instructions_str = <<"-">>

\* a row rendered for a target whose stored 'Instructions' value is 0
C10_Witness ==
    /\ SectionReturned
    /\ \E n \in 1..Len(rows) : StoredInstructions(rows[n]) = <<0>>

\* what the code keeps of C10: the field is the stored value when that value
\* is not 0 and '-' in every other case
C10_NonZeroInstructionField ==
    SectionReturned =>
        \A n \in 1..Len(rows) :
            rows[n].instructions_str
                = IF StoredInstructions(rows[n]) \notin {None, <<0>>}
                  THEN format_commas(StoredInstructions(rows[n])[1])
                  ELSE <<"-">>

(***************************************************************************)
(* generate_html_report and generate_sections_html.                        *)
(***************************************************************************)
\* the order in which the legend names the targets
LegendOrder ==
    <<w_facet_format_jit, w_facet_json_cranelift, w_facet_format_json, w_facet_json,
      w_serde_json>>

\* the text the legend adds to a target
legend_note(target_key) ==
    IF target_key = w_facet_format_jit THEN " - Format-agnostic JIT (our work!)"
    ELSE IF target_key = w_serde_json THEN " - The baseline to beat"
    ELSE ""

\* generate_html_report(divan_data, git_info), with datetime.now() as now: the
\* header and the legend
generate_html_report(data, git_info, now) ==
    << [kind |-> "header", generated |-> now, commit |-> git_info.commit,
        branch |-> git_info.branch],
       [kind |-> "legend",
        items |-> [n \in 1..Len(LegendOrder) |->
                      [color |-> TARGETS[LegendOrder[n]].color,
                       emoji |-> TARGETS[LegendOrder[n]].emoji,
                       label |-> TARGETS[LegendOrder[n]].label,
                       note |-> legend_note(LegendOrder[n])]]] >>

\* simple_struct, single_nested_struct, simple_with_options, nested_struct
micro_names ==
    { w_simple_struct,
      <<"s", "i", "n", "g", "l", "e", "_", "n", "e", "s", "t", "e", "d", "_", "s", "t",
        "r", "u", "c", "t">>,
      <<"s", "i", "m", "p", "l", "e", "_", "w", "i", "t", "h", "_", "o", "p", "t", "i",
        "o", "n", "s">>,
      <<"n", "e", "s", "t", "e", "d", "_", "s", "t", "r", "u", "c", "t">> }

\* twitter, canada, hashmaps, nested_structs
realistic_names ==
    { w_twitter,
      <<"c", "a", "n", "a", "d", "a">>,
      <<"h", "a", "s", "h", "m", "a", "p", "s">>,
      <<"n", "e", "s", "t", "e", "d", "_", "s", "t", "r", "u", "c", "t", "s">> }

\* floats, integers, booleans, short_strings, long_strings, escaped_strings
array_names ==
    { <<"f", "l", "o", "a", "t", "s">>,
      <<"i", "n", "t", "e", "g", "e", "r", "s">>,
      <<"b", "o", "o", "l", "e", "a", "n", "s">>,
      <<"s", "h", "o", "r", "t", "_", "s", "t", "r", "i", "n", "g", "s">>,
      <<"l", "o", "n", "g", "_", "s", "t", "r", "i", "n", "g", "s">>,
      <<"e", "s", "c", "a", "p", "e", "d", "_", "s", "t", "r", "i", "n", "g", "s">> }

\* [b for b in divan_data.keys() if b in names]
benches_in(data, names) == SelectSeq(DictKeys(data), LAMBDA b : b \in names)

\* other_benches with only the micro names left out
other_benches_but_micro(data) ==
    SelectSeq(DictKeys(data), LAMBDA b : b \notin micro_names)

\* other_benches
other_benches(data) ==
    SelectSeq(DictKeys(data),
              LAMBDA b : b \notin micro_names \cup realistic_names \cup array_names)

\* the (category_name, benchmarks) pairs of the loop
categories(data) ==
    << [category_name |-> "Micro Benchmarks (JIT Testing)",
        benchmarks |-> benches_in(data, micro_names)],
       [category_name |-> "Realistic Benchmarks (Real-World Data)",
        benchmarks |-> benches_in(data, realistic_names)],
       [category_name |-> "Array Benchmarks (Vec<T>)",
        benchmarks |-> benches_in(data, array_names)],
       [category_name |-> "Other Benchmarks", benchmarks |-> other_benches(data)] >>

\* the sections of one benchmark: deserialize, then serialize, each only if
\* bench_data.get(operation) is not empty
bench_sections(data, gdata, name) ==
    LET bench_data == DictGet(data, name) IN
    (IF bench_data.deserialize # EmptyDict
     THEN generate_benchmark_section(name, "deserialize", bench_data.deserialize, gdata,
                                     name \o w_u_deser)
     ELSE <<>>)
    \o
    (IF bench_data.serialize # EmptyDict
     THEN generate_benchmark_section(name, "serialize", bench_data.serialize, gdata,
                                     name \o w_u_ser)
     ELSE <<>>)

\* for bench_name in benchmarks
RECURSIVE benches_html(_, _, _)
benches_html(data, gdata, benchmarks) ==
    IF benchmarks = <<>> THEN <<>>
    ELSE bench_sections(data, gdata, Head(benchmarks))
            \o benches_html(data, gdata, Tail(benchmarks))

\* the loop over the categories without 'if not benchmarks: continue': a
\* header for every category, empty or not
RECURSIVE categories_html_all(_, _, _)
categories_html_all(data, gdata, cats) ==
    IF cats = <<>> THEN <<>>
    ELSE <<[kind |-> "section-header", category_name |-> Head(cats).category_name]>>
            \o benches_html(data, gdata, Head(cats).benchmarks)
            \o categories_html_all(data, gdata, Tail(cats))

\* for category_name, benchmarks in [...]: a category without benchmarks is skipped
RECURSIVE categories_html(_, _, _)
categories_html(data, gdata, cats) ==
    IF cats = <<>> THEN <<>>
    ELSE (IF Head(cats).benchmarks = <<>> THEN <<>>
          ELSE <<[kind |-> "section-header", category_name |-> Head(cats).category_name]>>
                  \o benches_html(data, gdata, Head(cats).benchmarks))
            \o categories_html(data, gdata, Tail(cats))

\* generate_sections_html(divan_data, gungraun_data)
generate_sections_html(data, gdata) == categories_html(data, gdata, categories(data))

\* generate_interactive_js() and the footer main appends
report_tail == << [kind |-> "interactive-js"], [kind |-> "footer"] >>

\* sum(1 for b in divan_data.values() if b.get(op))
RECURSIVE count_benchmarks(_, _)
count_benchmarks(data, op) ==
    IF data = <<>> THEN 0
    ELSE (IF (IF op = "deserialize" THEN data[1].v.deserialize ELSE data[1].v.serialize)
                # EmptyDict
          THEN 1 ELSE 0) + count_benchmarks(Tail(data), op)

(***************************************************************************)
(* The files and the environment of main.                                  *)
(***************************************************************************)
\* the lines the texts of the file at sys.argv[1] are made of
MainDivanLines ==
    {l_sec_simple, l_sec_twitter, l_sec_floats, l_jit_de, l_serde_ser, l_bad_float,
     l_top_result}

\* the texts the file at sys.argv[1] may hold, as text.split('\n'): the empty
\* file, every text of one to MaxLines of the lines above, and six more
MainDivanTexts ==
    Texts(MainDivanLines)
        \cup { <<l_blank>>,
               <<l_sec_simple, l_jit_de, l_serde_de>>,
               <<l_sec_simple, l_jit_de, l_sec_twitter, l_serde_ser>>,
               <<l_sec_bare, l_jit_de>>,
               <<l_top_result, l_jit_de, l_sec_twitter, l_serde_ser>>,
               <<l_sec_simple, l_serde_de, l_serde_ser>> }

\* the texts the file at sys.argv[2] may hold
MainGungraunTexts ==
    { <<l_blank>>,
      <<g_name_jit, g_instructions>>,
      <<g_name_jit, g_instructions_zero, g_name_serde, g_cycles>>,
      <<g_name_serde, g_cycles, g_name_serde, g_instructions>> }

\* a path names no file, a file that cannot be read, or a file with a text
Files(Contents) ==
    { [state |-> "missing", lines |-> <<>>], [state |-> "unreadable", lines |-> <<>>] }
        \cup { [state |-> "readable", lines |-> t] : t \in Contents }

\* datetime.now().strftime(...)
Timestamps == {"2025-01-01 00:00:00", "2025-01-01 00:00:01"}

\* git_info: what the two git commands print, or 'unknown' when one fails
GitInfos ==
    { [commit |-> "abc1234", branch |-> "main"],
      [commit |-> "unknown", branch |-> "unknown"] }

\* Path.exists()
exists(file) == file.state # "missing"

\* read_text() raising for every path that is not a readable file, a missing
\* one included
read_raises_if_absent(file) == file.state # "readable"

\* file.read_text() if file.exists() else "" raises: only read_text() can, so
\* only for a path that exists
read_raises(file) == exists(file) /\ file.state = "unreadable"

\* file.read_text() if file.exists() else "", as text.split('\n')
read_or_empty(file) == IF exists(file) THEN file.lines ELSE <<l_blank>>

(***************************************************************************)
(* main.                                                                   *)
(***************************************************************************)
not_main_vars == <<divan_vars, gungraun_vars, bench_name, operation, section_data,
                   sorted_targets, ti, rows, chart>>

InitMain ==
    /\ pc = "main"
    /\ argc \in 1..4
    /\ divan_file \in Files(MainDivanTexts)
    /\ gungraun_file \in Files(MainGungraunTexts)
    /\ output_file \in [writable : BOOLEAN, written : {FALSE}, content : {<<>>}]
    /\ divan_data = EmptyDict
    /\ gungraun_data = EmptyDict
    /\ html = <<>>
    /\ exit_code = -1
    /\ DivanIdle /\ GungraunIdle
    /\ bench_name = None /\ operation = "none" /\ section_data = EmptyDict
    /\ sorted_targets = <<>> /\ ti = 1 /\ rows = <<>> /\ chart = <<>>

\* the process ends with the status given
Exit(status) ==
    /\ exit_code' = status
    /\ pc' = "exited"

\* if len(sys.argv) < 3: usage and sys.exit(1)
MainUsage ==
    /\ pc = "main"
    /\ argc < 3
    /\ Exit(1)
    /\ UNCHANGED <<argc, divan_file, gungraun_file, divan_data, gungraun_data, html,
                   output_file, not_main_vars>>

\* divan_file.read_text() raises: the traceback and status 1
MainDivanReadError ==
    /\ pc = "main"
    /\ argc >= 3
    /\ read_raises(divan_file)
    /\ Exit(1)
    /\ UNCHANGED <<argc, divan_file, gungraun_file, divan_data, gungraun_data, html,
                   output_file, not_main_vars>>

\* parse_divan_output raises ValueError: the traceback and status 1
MainDivanValueError ==
    /\ pc = "main"
    /\ argc >= 3
    /\ ~read_raises(divan_file)
    /\ parse_divan_output(read_or_empty(divan_file)).raised
    /\ Exit(1)
    /\ UNCHANGED <<argc, divan_file, gungraun_file, divan_data, gungraun_data, html,
                   output_file, not_main_vars>>

\* MainParseDivan with the output file opened for writing before the inputs
\* are parsed: the file is there, empty, from the first stage on
MainParseDivanOutputOpened ==
    /\ pc = "main"
    /\ argc >= 3
    /\ ~read_raises(divan_file)
    /\ ~parse_divan_output(read_or_empty(divan_file)).raised
    /\ divan_data' = parse_divan_output(read_or_empty(divan_file)).results
    /\ output_file' = [output_file EXCEPT !.written = output_file.writable]
    /\ pc' = "main_gungraun"
    /\ UNCHANGED <<argc, divan_file, gungraun_file, gungraun_data, html, exit_code,
                   not_main_vars>>

\* divan_text read and divan_data = parse_divan_output(divan_text)
MainParseDivan ==
    /\ pc = "main"
    /\ argc >= 3
    /\ ~read_raises(divan_file)
    /\ ~parse_divan_output(read_or_empty(divan_file)).raised
    /\ divan_data' = parse_divan_output(read_or_empty(divan_file)).results
    /\ pc' = "main_gungraun"
    /\ UNCHANGED <<argc, divan_file, gungraun_file, gungraun_data, html, output_file,
                   exit_code, not_main_vars>>

\* gungraun_file.read_text() raises: the traceback and status 1
MainGungraunReadError ==
    /\ pc = "main_gungraun"
    /\ read_raises(gungraun_file)
    /\ Exit(1)
    /\ UNCHANGED <<argc, divan_file, gungraun_file, divan_data, gungraun_data, html,
                   output_file, not_main_vars>>

\* gungraun_text read and gungraun_data = parse_gungraun_output(gungraun_text)
MainParseGungraun ==
    /\ pc = "main_gungraun"
    /\ ~read_raises(gungraun_file)
    /\ gungraun_data' = parse_gungraun_output(read_or_empty(gungraun_file))
    /\ pc' = "main_generate"
    /\ UNCHANGED <<argc, divan_file, gungraun_file, divan_data, html, output_file,
                   exit_code, not_main_vars>>

\* git_info, then html built from its four parts
MainGenerate ==
    /\ pc = "main_generate"
    /\ \E git_info \in GitInfos, now \in Timestamps :
          html' = generate_html_report(divan_data, git_info, now)
                    \o generate_sections_html(divan_data, gungraun_data)
                    \o report_tail
    /\ pc' = "main_write"
    /\ UNCHANGED <<argc, divan_file, gungraun_file, divan_data, gungraun_data, output_file,
                   exit_code, not_main_vars>>

\* output_file.write_text(html) raises: the traceback and status 1
MainWriteError ==
    /\ pc = "main_write"
    /\ ~output_file.writable
    /\ Exit(1)
    /\ UNCHANGED <<argc, divan_file, gungraun_file, divan_data, gungraun_data, html,
                   output_file, not_main_vars>>

\* output_file.write_text(html), the two counts printed, and the end of main
MainWrite ==
    /\ pc = "main_write"
    /\ output_file.writable
    /\ output_file' = [output_file EXCEPT !.written = TRUE, !.content = html]
    /\ Exit(0)
    /\ UNCHANGED <<argc, divan_file, gungraun_file, divan_data, gungraun_data, html,
                   not_main_vars>>

NextMain ==
    \/ MainUsage
    \/ MainDivanReadError
    \/ MainDivanValueError
    \/ MainParseDivan
    \/ MainGungraunReadError
    \/ MainParseGungraun
    \/ MainGenerate
    \/ MainWriteError
    \/ MainWrite

SpecMain == InitMain /\ [][NextMain]_vars

(***************************************************************************)
(* Properties of main.                                                     *)
(***************************************************************************)
Exited == pc = "exited"

Missing(file) == file.state = "missing"

Unreadable(file) == file.state = "unreadable"

\* the elements of a report that are benchmark sections or category headers
SectionsOf(report) ==
    SelectSeq(report, LAMBDA e : e.kind \in {"section-header", "benchmark-item"})

\* C1: with two input paths given, when either of them does not exist or
\* cannot be read, the run ends with a non-zero exit status and the report
\* file is never written.
C1_UnusableInputAborts ==
    (/\ argc >= 3
     /\ \/ Missing(divan_file) \/ Unreadable(divan_file)
        \/ Missing(gungraun_file) \/ Unreadable(gungraun_file))
        => /\ ~output_file.written
           /\ Exited => exit_code # 0

\* C1 as amended: an input path that exists and cannot be read ends the run
\* with a non-zero exit status and no report written; a path that does not
\* exist is read as the empty text and does not end the run: with a writable
\* output path, a missing statistical path beside a missing or readable
\* instruction path ends in status 0 with a report without sections, and a
\* missing instruction path beside a readable statistical file ends in
\* status 0 with the report written exactly when parsing that file does not
\* raise.
C1_UnreadableInputAborts ==
    argc >= 3 =>
        /\ (Unreadable(divan_file) \/ Unreadable(gungraun_file))
              => /\ ~output_file.written
                 /\ Exited => exit_code # 0
        /\ (Missing(divan_file) /\ pc \notin {"main", "exited"})
              => divan_data = EmptyDict
        /\ (Missing(gungraun_file) /\ pc \in {"main_generate", "main_write"})
              => gungraun_data = EmptyDict
        /\ (/\ Exited /\ output_file.writable
            /\ Missing(divan_file) /\ ~Unreadable(gungraun_file))
              => /\ exit_code = 0
                 /\ output_file.written
                 /\ output_file.content = html
                 /\ html # <<>>
                 /\ SectionsOf(html) = <<>>
        /\ (/\ Exited /\ output_file.writable
            /\ Missing(gungraun_file) /\ divan_file.state = "readable")
              => ((exit_code = 0 /\ output_file.written)
                    <=> ~parse_divan_output(divan_file.lines).raised)

\* a run that ended with status 0 and a written report although the path of
\* the statistical file names no file
C1_Witness ==
    /\ Exited
    /\ argc >= 3
    /\ Missing(divan_file)
    /\ exit_code = 0
    /\ output_file.written

(***************************************************************************)
(* Properties of the ratio to the baseline.                                *)
(***************************************************************************)
\* the number a ratio field 'd.ddx' shows, in hundredths
ShownHundredths(field) ==
    DigitsVal(RemoveAll(SubSeq(field, 1, Len(field) - 1), <<".">>))

\* a ratio field has the form of digits, a dot, two digits and 'x'
IsRatioField(field) ==
    /\ Len(field) >= 5
    /\ field[Len(field)] = "x"
    /\ field[Len(field) - 3] = "."
    /\ \A n \in 1..(Len(field) - 1) : n # Len(field) - 3 => field[n] \in Digit

\* hundredths is the ratio a / b rounded to two decimals
IsRoundedRatio(hundredths, a, b) ==
    LET diff == 100 * a - hundredths * b IN
    /\ 2 * diff <= b
    /\ 2 * diff >= 0 - b

\* the group has the target serde_json with a duration that is not zero
BaselineUsable ==
    \E e \in 1..Len(section_data) :
        section_data[e].k = w_serde_json /\ section_data[e].v # 0

\* C11: the ratio to the baseline of a row is present only if serde_json is in
\* the group, and is then the duration of the row divided by the duration of
\* serde_json; when serde_json is missing or its duration is zero the ratio of
\* every row is '-', and the section is returned all the same.
C11_RatioToBaseline ==
    /\ (pc = "section_rows" /\ ti > Len(sorted_targets)) => ENABLED SectionChart
    /\ \A n \in 1..Len(rows) :
          /\ rows[n].vs_serde_str # <<"-">>
                => /\ BaselineUsable
                   /\ IsRatioField(rows[n].vs_serde_str)
                   /\ IsRoundedRatio(ShownHundredths(rows[n].vs_serde_str),
                                     DurationOf(rows[n]),
                                     DictGet(section_data, w_serde_json))
          /\ ~BaselineUsable => rows[n].vs_serde_str = <<"-">>

\* a returned table of two rows or more whose serde_json has the duration zero
C11_Witness ==
    /\ SectionReturned
    /\ Len(rows) >= 2
    /\ DictHas(section_data, w_serde_json)
    /\ DictGet(section_data, w_serde_json) = 0
    /\ \E n \in 1..Len(rows) : DurationOf(rows[n]) > 0

(***************************************************************************)
(* Properties of the sections of the report.                               *)
(***************************************************************************)
\* the lines of the statistical file of a run whose path names a readable file
DivanText == divan_file.lines

\* main is past parse_divan_output, which returned
DivanParsed == pc \in {"main_gungraun", "main_generate", "main_write"} \/ (Exited /\ html # <<>>)

\* html is built
ReportBuilt == pc = "main_write" \/ (Exited /\ html # <<>>)

\* line n of lines is a section line, and no line between it and the next
\* section line (or the end) matches the measurement pattern
IsEmptySectionAt(lines, n) ==
    /\ IsSectionLine(lines[n])
    /\ \A q \in (n + 1)..Len(lines) :
          (\A r \in (n + 1)..q : ~IsSectionLine(lines[r])) => ~result_match(lines[q]).ok

\* no later section line of lines names the benchmark of line n again
IsLastOfItsName(lines, n) ==
    \A q \in (n + 1)..Len(lines) : module_match(lines[q]) # module_match(lines[n])

\* the benchmark sections of a report that are about the benchmark name
ItemsOf(report, name) ==
    SelectSeq(report, LAMBDA e : e.kind = "benchmark-item" /\ e.bench_name = name)

\* C12: a section line followed by no recognized measurement line is kept by
\* parse_divan_output as an entry with empty deserialize and serialize
\* mappings; generate_sections_html emits no benchmark section for it, and the
\* run does not fail for it.
C12_EmptySectionRetainedNotRendered ==
    divan_file.state = "readable" =>
        \A n \in 1..Len(DivanText) :
            (IsEmptySectionAt(DivanText, n) /\ IsLastOfItsName(DivanText, n)) =>
                /\ DivanParsed =>
                      /\ DictHas(divan_data, module_match(DivanText[n]))
                      /\ DictGet(divan_data, module_match(DivanText[n])) = EmptyBench
                /\ ReportBuilt => ItemsOf(html, module_match(DivanText[n])) = <<>>
                /\ (/\ Exited /\ argc >= 3 /\ output_file.writable
                    /\ ~Unreadable(gungraun_file)
                    /\ ~parse_divan_output(DivanText).raised)
                      => exit_code = 0 /\ output_file.written

\* a written report for a text with a section without measurements and a
\* section with one, the second rendered
C12_Witness ==
    /\ Exited
    /\ output_file.written
    /\ divan_file.state = "readable"
    /\ \E n \in 1..Len(DivanText) :
          IsEmptySectionAt(DivanText, n) /\ IsLastOfItsName(DivanText, n)
    /\ \E e \in 1..Len(html) : html[e].kind = "benchmark-item"

\* the kinds of the elements of a report, in order
KindsOf(report) == [n \in 1..Len(report) |-> report[n].kind]

\* the file is there and holds the empty text
IsEmptyFile(file) == file.state = "readable" /\ file.lines = <<l_blank>>

\* C13: with an empty statistical input and an empty instruction input the
\* run ends with exit status 0 and writes one document made of the header,
\* the legend and the closing parts, with no category header and no benchmark
\* section.
C13_EmptyInputsEmptyDocument ==
    (/\ Exited /\ argc >= 3 /\ output_file.writable
     /\ IsEmptyFile(divan_file) /\ IsEmptyFile(gungraun_file))
        => /\ exit_code = 0
           /\ output_file.written
           /\ output_file.content = html
           /\ KindsOf(html) = <<"header", "legend", "interactive-js", "footer">>
           /\ SectionsOf(html) = <<>>

\* a run on two empty files that ended with the report written
C13_Witness ==
    /\ Exited
    /\ IsEmptyFile(divan_file)
    /\ IsEmptyFile(gungraun_file)
    /\ output_file.written
    /\ exit_code = 0

(***************************************************************************)
(* Properties of the rows and the bars of a section.                       *)
(***************************************************************************)
\* the keys of the registry, as the source lists them
RegistryKeys ==
    {w_facet_format_jit, w_facet_format_json, w_facet_json, w_facet_json_cranelift,
     w_serde_json}

\* how many rows of the table are about the target
RowsAbout(target) == Cardinality({n \in 1..Len(rows) : rows[n].target = target})

\* how many bars of the chart carry the label and the colours of the target
BarsAbout(target) ==
    Cardinality({n \in 1..Len(chart.labels) :
        /\ chart.labels[n] = <<TARGETS[target].emoji, TARGETS[target].label>>
        /\ chart.borderColor[n] = TARGETS[target].color
        /\ chart.backgroundColor[n] = <<TARGETS[target].color, "CC">>})

\* C14: a target of the group that is not a key of the registry gets no row
\* and no bar, a target that is a key gets exactly one row and one bar, and
\* the function goes on to its return whatever targets the group has.
C14_OnlyRegisteredTargetsRendered ==
    /\ pc = "section_rows" =>
          \/ ENABLED SectionSkipTarget
          \/ ti <= Len(sorted_targets) /\ sorted_targets[ti].k \in DOMAIN TARGETS
          \/ ENABLED SectionChart
    /\ SectionReturned =>
          /\ \A e \in 1..Len(section_data) :
                IF section_data[e].k \in RegistryKeys
                THEN /\ RowsAbout(section_data[e].k) = 1
                     /\ BarsAbout(section_data[e].k) = 1
                ELSE RowsAbout(section_data[e].k) = 0
          /\ Len(rows) = Cardinality({e \in 1..Len(section_data) :
                                        section_data[e].k \in RegistryKeys})
          /\ Len(chart.labels) = Len(rows)
          /\ Len(chart.data) = Len(rows)
          /\ Len(chart.backgroundColor) = Len(rows)
          /\ Len(chart.borderColor) = Len(rows)

\* a returned section of a group with a target outside the registry and a
\* target inside it
C14_Witness ==
    /\ SectionReturned
    /\ \E e \in 1..Len(section_data) : section_data[e].k \notin RegistryKeys
    /\ rows # <<>>

(***************************************************************************)
(* Properties of the categories.                                           *)
(***************************************************************************)
\* the header of the category a benchmark name belongs to
CategoryOf(name) ==
    IF name \in micro_names THEN "Micro Benchmarks (JIT Testing)"
    ELSE IF name \in realistic_names THEN "Realistic Benchmarks (Real-World Data)"
    ELSE IF name \in array_names THEN "Array Benchmarks (Vec<T>)"
    ELSE "Other Benchmarks"

\* the places <<category, position>> at which the categories list a name
PlacesOf(cats, name) ==
    {pl \in (1..Len(cats)) \X (1..Cardinality(DOMAIN divan_data)) :
        /\ pl[2] <= Len(cats[pl[1]].benchmarks)
        /\ cats[pl[1]].benchmarks[pl[2]] = name}

\* the category header that precedes element e of a report most closely, or ""
HeaderBefore(report, e) ==
    IF \E h \in 1..(e - 1) : report[h].kind = "section-header"
    THEN report[CHOOSE h \in 1..(e - 1) :
            /\ report[h].kind = "section-header"
            /\ \A g \in (h + 1)..(e - 1) : report[g].kind # "section-header"].category_name
    ELSE ""

\* C15: every parsed benchmark is in exactly one of the four categories, the
\* one of the bucket that lists its name and 'other' when no bucket does; a
\* rendered benchmark section stands under the header of that category, and
\* under no other.
C15_ExactlyOneCategory ==
    /\ DivanParsed =>
          \A e \in 1..Len(divan_data) :
              /\ Cardinality(PlacesOf(categories(divan_data), divan_data[e].k)) = 1
              /\ \A pl \in PlacesOf(categories(divan_data), divan_data[e].k) :
                    categories(divan_data)[pl[1]].category_name
                        = CategoryOf(divan_data[e].k)
    /\ ReportBuilt =>
          \A e \in 1..Len(html) :
              html[e].kind = "benchmark-item" =>
                  /\ HeaderBefore(html, e) = CategoryOf(html[e].bench_name)
                  /\ \A f \in 1..Len(html) :
                        (/\ html[f].kind = "benchmark-item"
                         /\ html[f].bench_name = html[e].bench_name
                         /\ html[f].operation = html[e].operation) => f = e

\* a built report with sections under the header of 'other' and under the
\* header of a known bucket
C15_Witness ==
    /\ ReportBuilt
    /\ \E e, f \in 1..Len(html) :
          /\ html[e].kind = "benchmark-item"
          /\ html[f].kind = "benchmark-item"
          /\ CategoryOf(html[e].bench_name) = "Other Benchmarks"
          /\ CategoryOf(html[f].bench_name) = "Realistic Benchmarks (Real-World Data)"

(***************************************************************************)
(* Properties of the order of rows and bars.                               *)
(***************************************************************************)
\* the number of ns a bar 'd.ddd' of the chart shows
ShownNs(bar) == DigitsVal(RemoveAll(bar, <<".">>))

\* C16: the rows of a section come in non-decreasing order of duration, rows
\* of equal duration in the order in which the dataset first saw them, and the
\* labels, the data, the background colours and the border colours of the
\* chart list the targets of the rows, in the order of the rows.
C16_RowsAndBarsInOrder ==
    SectionReturned =>
        /\ \A a, b \in 1..Len(rows) :
              a < b => \/ DurationOf(rows[a]) < DurationOf(rows[b])
                       \/ /\ DurationOf(rows[a]) = DurationOf(rows[b])
                          /\ FirstSeen(rows[a]) < FirstSeen(rows[b])
        /\ DOMAIN chart.labels = DOMAIN rows
        /\ DOMAIN chart.data = DOMAIN rows
        /\ DOMAIN chart.backgroundColor = DOMAIN rows
        /\ DOMAIN chart.borderColor = DOMAIN rows
        /\ \A n \in 1..Len(rows) :
              /\ chart.labels[n] = <<rows[n].emoji, rows[n].label>>
              /\ chart.labels[n][2] = TARGETS[rows[n].target].label
              /\ chart.borderColor[n] = TARGETS[rows[n].target].color
              /\ chart.backgroundColor[n] = <<TARGETS[rows[n].target].color, "CC">>
              /\ 2 * (DurationOf(rows[n]) - Thousandths * ShownNs(chart.data[n]))
                    <= Thousandths
              /\ 2 * (Thousandths * ShownNs(chart.data[n]) - DurationOf(rows[n]))
                    <= Thousandths

\* a returned section of three rows, two of them of equal duration, the third
\* of another
C16_Witness ==
    /\ SectionReturned
    /\ Len(rows) = 3
    /\ \E a, b, c \in 1..3 :
          /\ a # b
          /\ DurationOf(rows[a]) = DurationOf(rows[b])
          /\ DurationOf(rows[c]) # DurationOf(rows[a])

(***************************************************************************)
(* Properties of the operation and the target of a measurement.            *)
(***************************************************************************)
\* the name of the measurement line the loop has just gone through
LastName == result_match(text[i - 1]).target_full

\* the operation of a measurement name as C17 states it
ClaimedOperation(name) ==
    IF \E p \in 1..Len(name) : StartsWithAt(name, p, w_deserialize)
    THEN "deserialize"
    ELSE "serialize"

\* the marker of an operation: '_deserialize' or '_serialize'
MarkerOf(op) == IF op = "deserialize" THEN w_u_deserialize ELSE w_u_serialize

\* C17: the operation of a recognized measurement name is deserialize exactly
\* when the name contains 'deserialize', and the measurement is stored under
\* the name with the marker of that operation removed and nothing else
\* changed.
C17_OperationMarkerRemoved ==
    JustStored =>
        LET op == ClaimedOperation(LastName)
            target == RemoveAll(LastName, MarkerOf(op))
        IN  /\ DictHas(DictGet(results, current_benchmark)[op], target)
            /\ DictGet(DictGet(results, current_benchmark)[op], target)
                  = to_ns(float_value(result_match(text[i - 1]).value),
                          result_match(text[i - 1]).unit)

\* the measurement 'serde_json_serialize_deserialize' has just been stored
C17_Witness ==
    /\ JustStored
    /\ LastName = w_serde_json \o w_u_serialize \o w_u_deserialize

\* what the code keeps of C17: the operation is as stated, and a name T
\* followed by one marker, T holding no marker itself, is stored under T
C17_SuffixOfPlainTargetRemoved ==
    JustStored =>
        /\ operation_of(LastName) = ClaimedOperation(LastName)
        /\ \A op \in Operations :
              LET cut == Len(LastName) - Len(MarkerOf(op))
                  T == SubSeq(LastName, 1, cut)
              IN  (/\ cut >= 1
                   /\ EndsWith(LastName, MarkerOf(op))
                   /\ ~Contains(T, w_u_deserialize)
                   /\ ~Contains(T, w_u_serialize))
                      => /\ ClaimedOperation(LastName) = op
                         /\ DictHas(DictGet(results, current_benchmark)[op], T)

(***************************************************************************)
(* Properties of measurement lines that are not nested.                    *)
(***************************************************************************)
\* a line has the form of a measurement: a tree-drawing prefix, nested or
\* not, an identifier, a decimal number and a unit, in that order
HasMeasurementForm(line) ==
    /\ result_match(line).ok
    /\ float_ok(result_match(line).value)

\* the loop has gone through line i - 1 and has not raised
LastScanned == pc \in {"divan_loop", "divan_returned"} /\ i > 1

\* the last line had the form of a measurement and was recorded under the
\* benchmark that was active before it, which is still the active one
LastRecordedUnderActive ==
    LET b == ActiveAt(i - 1)
        m == result_match(text[i - 1])
    IN  /\ current_benchmark = b
        /\ DictKeys(results) = DictKeys(parse_divan_output(SubSeq(text, 1, i - 2)).results)
        /\ DictHas(results, b)
        /\ DictHas(DictGet(results, b)[operation_of(m.target_full)],
                   target_base_of(m.target_full))

\* C19: a line of the form of a measurement is recorded under the active
\* benchmark whether it is nested or not: it opens no section and leaves the
\* active benchmark as it is.
C19_UnnestedMeasurementRecorded ==
    (/\ LastScanned
     /\ HasMeasurementForm(text[i - 1])
     /\ ActiveAt(i - 1) # None)
        => LastRecordedUnderActive

\* the loop has gone through a measurement line that is not nested, below a
\* section
C19_Witness ==
    /\ LastScanned
    /\ text[i - 1] = l_top_result
    /\ ActiveAt(i - 1) # None

\* what the code keeps of C19: a line of the form of a measurement that does
\* not start with the tree-drawing prefix itself is recorded under the active
\* benchmark
C19_NestedMeasurementRecorded ==
    (/\ LastScanned
     /\ HasMeasurementForm(text[i - 1])
     /\ text[i - 1][1] \notin {"TEE", "ELL"}
     /\ ActiveAt(i - 1) # None)
        => LastRecordedUnderActive

(***************************************************************************)
(* Properties of the sections emitted.                                     *)
(***************************************************************************)
\* the rows the group has: its targets that the registry names
RowSet == {e \in 1..Len(section_data) : section_data[e].k \in RegistryKeys}

\* C20: a table and its chart are emitted for exactly the pairs of benchmark
\* and operation that have a row: an emitted section has at least one table
\* row and one bar, and a pair without rows emits nothing.
C20_SectionIffRows ==
    /\ SectionReturned =>
          /\ Len(rows) >= 1
          /\ Len(chart.labels) >= 1
          /\ Len(chart.data) >= 1
    /\ (pc \in {"section_returned", "section_returned_empty"} /\ RowSet = {})
          => pc = "section_returned_empty"
    /\ pc = "section_returned_empty" => RowSet = {}

\* a section was emitted for a group none of whose targets is in the registry
C20_Witness ==
    /\ SectionReturned
    /\ section_data # EmptyDict
    /\ RowSet = {}
    /\ rows = <<>>

\* what the code keeps of C20: a section is emitted exactly when the group
\* has a target, in the registry or not, and has a row and a bar for each
\* target of the registry
C20_SectionIffTargets ==
    /\ SectionReturned =>
          /\ section_data # EmptyDict
          /\ Len(rows) = Cardinality(RowSet)
          /\ Len(chart.data) = Cardinality(RowSet)
    /\ pc = "section_returned_empty" => section_data = EmptyDict

(***************************************************************************)
(* Properties of the order of the stages of main.                          *)
(***************************************************************************)
\* the place of a position of main in the order of its stages
StageOf(position) ==
    CASE position = "main" -> 0
      [] position = "main_gungraun" -> 1
      [] position = "main_generate" -> 2
      [] position = "main_write" -> 3
      [] position = "exited" -> 4

\* C21: main goes through its stages in one order, none of them twice: the
\* first input read and parsed, the second read and parsed, the document
\* rendered, the document written. The output file is written at most once and
\* only from the stage of writing, with both inputs parsed and the whole
\* document rendered, and a run that ended in failure has written nothing.
C21_StagesInOrder ==
    /\ [](output_file.written =>
            /\ Exited
            /\ exit_code = 0
            /\ html # <<>>
            /\ output_file.content = html
            /\ KindsOf(html)[Len(html)] = "footer"
            /\ divan_data = parse_divan_output(read_or_empty(divan_file)).results
            /\ gungraun_data = parse_gungraun_output(read_or_empty(gungraun_file)))
    /\ []((Exited /\ exit_code # 0) => ~output_file.written /\ output_file.content = <<>>)
    /\ [][/\ StageOf(pc') > StageOf(pc)
          /\ output_file' # output_file => (pc = "main_write" /\ ~output_file.written)
          /\ (pc' \notin {"exited"}) => StageOf(pc') = StageOf(pc) + 1]_vars

\* a run that parsed a benchmark and an instruction count and ended with the
\* report written
C21_Witness ==
    /\ Exited
    /\ output_file.written
    /\ divan_data # EmptyDict
    /\ gungraun_data # EmptyDict


(***************************************************************************)
(* A repeated section name.                                                *)
(***************************************************************************)

\* the text handed to parse_gungraun_output
GungraunText == read_or_empty(gungraun_file)

\* both parsers have just returned
BothParsed == pc = "main_generate"

\* the last line of lines for which Name yields name, or 0
LastNamed(lines, Name(_), name) ==
    LET S == {n \in 1..Len(lines) : Name(lines[n]) = name} IN
    IF S = {} THEN 0 ELSE CHOOSE n \in S : \A q \in S : q <= n

\* the lines after line n of lines up to the next line Name yields a name for
BlockAfter(lines, Name(_), n) ==
    {q \in (n + 1)..Len(lines) : \A r \in (n + 1)..q : Name(lines[r]) = None}

\* the measurement lines among those, for one operation
MeasurementsAfter(lines, n, op) ==
    {q \in BlockAfter(lines, module_match, n) :
        /\ result_match(lines[q]).ok
        /\ float_ok(result_match(lines[q]).value)
        /\ operation_of(result_match(lines[q]).target_full) = op}

\* the metric lines among those
MetricsAfter(lines, n) ==
    {q \in BlockAfter(lines, name_match, n) :
        /\ metric_match(lines[q]).ok
        /\ int_ok(metric_value_str(metric_match(lines[q])))}

\* the greatest member of a non-empty set of line numbers
LastOf(S) == CHOOSE n \in S : \A q \in S : q <= n

\* the text has two section lines of one name with a stored line after the
\* first of them
DivanNameRepeated(lines) ==
    \E n, q \in 1..Len(lines) :
        /\ n < q
        /\ IsSectionLine(lines[n])
        /\ module_match(lines[q]) = module_match(lines[n])
        /\ \E op \in Operations :
              MeasurementsAfter(lines, n, op) \cap 1..(q - 1) # {}

GungraunNameRepeated(lines) ==
    \E n, q \in 1..Len(lines) :
        /\ n < q
        /\ name_match(lines[n]) # None
        /\ name_match(lines[q]) = name_match(lines[n])
        /\ MetricsAfter(lines, n) \cap 1..(q - 1) # {}

\* C22: a section line naming a benchmark, or an instruction key, that
\* already has an entry starts that entry again, empty: after parsing, every
\* entry of either dataset holds exactly the measurements, or metrics, stored
\* from the lines that follow the last section line of its name (of two such
\* lines for one target or label, the later one), and none from the lines
\* that followed an earlier section line of that name.
C22_RepeatedSectionStartsAgain ==
    /\ BothParsed =>
        LET lines == read_or_empty(divan_file) IN
        \A e \in 1..Len(divan_data) : \A op \in Operations :
            LET n == LastNamed(lines, module_match, divan_data[e].k)
                from == MeasurementsAfter(lines, n, op)
                TargetAt(q) == target_base_of(result_match(lines[q]).target_full)
                group == divan_data[e].v[op]
            IN  /\ n > 0
                /\ {group[r].k : r \in 1..Len(group)} = {TargetAt(q) : q \in from}
                /\ \A r \in 1..Len(group) :
                      LET q == LastOf({x \in from : TargetAt(x) = group[r].k}) IN
                      group[r].v = to_ns(float_value(result_match(lines[q]).value),
                                         result_match(lines[q]).unit)
    /\ BothParsed =>
        \A e \in 1..Len(gungraun_data) :
            LET n == LastNamed(GungraunText, name_match, gungraun_data[e].k)
                from == MetricsAfter(GungraunText, n)
                LabelAt(q) == Strip(metric_match(GungraunText[q]).label)
                entry == gungraun_data[e].v
            IN  /\ n > 0
                /\ {entry[r].k : r \in 1..Len(entry)} = {LabelAt(q) : q \in from}
                /\ \A r \in 1..Len(entry) :
                      LET q == LastOf({x \in from : LabelAt(x) = entry[r].k}) IN
                      entry[r].v = DigitsVal(metric_value_str(metric_match(GungraunText[q])))

\* two texts parsed that each name a section twice, with a stored line after
\* the first
C22_Witness ==
    /\ BothParsed
    /\ DivanNameRepeated(read_or_empty(divan_file))
    /\ GungraunNameRepeated(GungraunText)
    /\ DictHas(divan_data, w_simple_struct)
    /\ DictGet(divan_data, w_simple_struct) = EmptyBench
    /\ DictHas(gungraun_data, key_serde)
    /\ Len(DictGet(gungraun_data, key_serde)) = 1


(***************************************************************************)
(* The instruction count of a row.                                         *)
(***************************************************************************)

\* the benchmark sections of a report
IsItem(e) == e.kind = "benchmark-item"

\* the rows of the benchmark section e that are about the target
RowsOf(e, target) == {r \in 1..Len(e.rows) : e.rows[r].target = target}

\* C23: the instruction count of a row depends on the benchmark and the
\* target only, never on the operation: every row of the report shows the
\* count stored under '<benchmark>_<target>' (or its absence), and whenever a
\* benchmark has a deserialize and a serialize row for one target, the two
\* rows show the same instruction value, or both show it absent.
C23_InstructionsSameForBothOperations ==
    ReportBuilt =>
        /\ \A a \in 1..Len(html) : IsItem(html[a]) =>
              \A r \in 1..Len(html[a].rows) :
                  html[a].rows[r].instructions_str
                      = instructions_str_of(instructions_of(gungraun_data,
                            html[a].bench_name, html[a].rows[r].target))
        /\ \A a, b \in 1..Len(html) :
              (/\ IsItem(html[a]) /\ IsItem(html[b])
               /\ html[a].bench_name = html[b].bench_name
               /\ html[a].operation = "deserialize"
               /\ html[b].operation = "serialize")
                  => \A r \in 1..Len(html[a].rows) :
                        \A s \in RowsOf(html[b], html[a].rows[r].target) :
                            html[a].rows[r].instructions_str
                                = html[b].rows[s].instructions_str

\* a written report in which a benchmark has a deserialize and a serialize
\* row for serde_json, both with the instruction count of the benchmark
C23_Witness ==
    /\ Exited /\ output_file.written
    /\ \E a, b \in 1..Len(html) :
          /\ IsItem(html[a]) /\ IsItem(html[b])
          /\ html[a].bench_name = html[b].bench_name
          /\ html[a].operation = "deserialize"
          /\ html[b].operation = "serialize"
          /\ \E r \in RowsOf(html[a], w_serde_json), s \in RowsOf(html[b], w_serde_json) :
                /\ html[a].rows[r].instructions_str = format_commas(6549)
                /\ html[b].rows[s].instructions_str = format_commas(6549)

====
